---- MODULE Spec2Model ----
(***************************************************************************)
(* A model of node-vpk (src/src/vpk.ts, the Vpk class of lines 1-1090):     *)
(* the in-memory index tree, the archive writer, the archive parser and    *)
(* the verifier, over byte-exact files.                                     *)
(*                                                                         *)
(* Representation.  A JavaScript string is the sequence of its UTF-16 code *)
(* units; a Buffer or a file is the sequence of its bytes (0..255); a      *)
(* path of the file system is an opaque TLA+ string.  A JavaScript object  *)
(* used as a map is the sequence of its [k, v] properties in insertion     *)
(* order.  A 32-bit checksum is kept as its four little-endian bytes.      *)
(***************************************************************************)
EXTENDS Integers, Sequences, FiniteSets, TLC

VARIABLES
    vpk,     \* the Vpk object under construction
    disk,    \* the file system: path |-> [exists, bytes]
    added,   \* the FileInPak values given to successful addFile calls and not removed since
    last,    \* the last operation: its name, arguments, outcome and the Vpk before it
    history  \* what earlier operations did to the files and to vpk (see NoHistory)

vars == <<vpk, disk, added, last, history>>

(***************************************************************************)
(* Bounds of the model.                                                    *)
(***************************************************************************)
\* addFile is offered while fewer than MaxFiles entries were added
MaxFiles == 2

(***************************************************************************)
(* Sequences and strings.                                                  *)
(***************************************************************************)
RECURSIVE Flatten(_)
Flatten(ss) == IF ss = <<>> THEN <<>> ELSE Head(ss) \o Flatten(Tail(ss))

Range(s) == { s[i] : i \in 1..Len(s) }

Min(a, b) == IF a < b THEN a ELSE b

\* the characters String.prototype.trim removes (the ones the model uses)
IsWhiteSpace(c) == c \in {9, 10, 11, 12, 13, 32, 160}

RECURSIVE TrimStart(_)
TrimStart(s) ==
    IF s # <<>> /\ IsWhiteSpace(Head(s)) THEN TrimStart(Tail(s)) ELSE s

RECURSIVE TrimEnd(_)
TrimEnd(s) ==
    IF s # <<>> /\ IsWhiteSpace(s[Len(s)])
    THEN TrimEnd(SubSeq(s, 1, Len(s) - 1))
    ELSE s

\* String.prototype.trim
Trim(s) == TrimEnd(TrimStart(s))

\* the single-space sentinel that stands for the root path
Sentinel == <<32>>

\* let fixedRelPath = relPath.trim(); if (fixedRelPath === '') fixedRelPath = ' '
FixRelPath(relPath) == IF Trim(relPath) = <<>> THEN Sentinel ELSE Trim(relPath)

(***************************************************************************)
(* JavaScript objects used as maps: properties in insertion order, and the *)
(* order in which for-in visits them (array-index keys first, ascending,   *)
(* then the other keys in insertion order).                                *)
(***************************************************************************)
ObjHas(o, k) == \E i \in 1..Len(o) : o[i].k = k

ObjIndex(o, k) == CHOOSE i \in 1..Len(o) : o[i].k = k

ObjGet(o, k) == o[ObjIndex(o, k)].v

\* o[k] = v: an existing property keeps its place, a new one is appended
ObjSet(o, k, v) ==
    IF ObjHas(o, k)
    THEN [o EXCEPT ![ObjIndex(o, k)] = [k |-> k, v |-> v]]
    ELSE Append(o, [k |-> k, v |-> v])

IsDigit(c) == c \in 48..57

\* a canonical array index: "0", or digits without a leading zero
IsIndexKey(k) ==
    /\ k # <<>>
    /\ Len(k) <= 9
    /\ \A i \in 1..Len(k) : IsDigit(k[i])
    /\ (Len(k) > 1 => k[1] # 48)

RECURSIVE IndexVal(_)
IndexVal(k) ==
    IF k = <<>> THEN 0 ELSE 10 * IndexVal(SubSeq(k, 1, Len(k) - 1)) + (k[Len(k)] - 48)

RECURSIVE SortIndexKeys(_)
SortIndexKeys(ks) ==
    IF ks = {} THEN <<>>
    ELSE LET m == CHOOSE k \in ks : \A j \in ks : IndexVal(k) <= IndexVal(j)
         IN  <<m>> \o SortIndexKeys(ks \ {m})

RECURSIVE OtherKeys(_)
OtherKeys(o) ==
    IF o = <<>> THEN <<>>
    ELSE (IF IsIndexKey(Head(o).k) THEN <<>> ELSE <<Head(o).k>>) \o OtherKeys(Tail(o))

\* for (const k in o)
ForIn(o) ==
    SortIndexKeys({ o[i].k : i \in { j \in 1..Len(o) : IsIndexKey(o[j].k) } })
        \o OtherKeys(o)

(***************************************************************************)
(* JavaScript numbers given to setVersion: an integer, or an integer and a *)
(* half.                                                                   *)
(***************************************************************************)
Num(n) == [w |-> n, half |-> FALSE]

NumAndHalf(n) == [w |-> n, half |-> TRUE]

Twice(x) == 2 * x.w + (IF x.half THEN 1 ELSE 0)

NumLt(x, y) == Twice(x) < Twice(y)

(***************************************************************************)
(* Data sources and tree leaves.                                           *)
(***************************************************************************)
\* typeof dataSource === 'string'
SrcPath(p) == [kind |-> "string", path |-> p, offset |-> 0, length |-> 0, bytes |-> <<>>]

\* a FileChunk { absolutePath, offset, length }
SrcChunk(p, off, len) ==
    [kind |-> "chunk", path |-> p, offset |-> off, length |-> len, bytes |-> <<>>]

\* a Buffer
SrcBuffer(b) == [kind |-> "buffer", path |-> "", offset |-> 0, length |-> 0, bytes |-> b]

Undefined == [kind |-> "undefined", path |-> "", offset |-> 0, length |-> 0, bytes |-> <<>>]

FileInPak(ext, relPath, name, src) ==
    [extension |-> ext, relPath |-> relPath, extlessFileName |-> name, dataSource |-> src]

\* the TreeLeaf addFile pushes: which of the three optional fields it sets
NewLeaf(file) ==
    LET ds == file.dataSource
    IN  [fileName |-> file.extlessFileName,
         absoluteFilePath |-> IF ds.kind = "string" THEN ds ELSE Undefined,
         fileChunk |-> IF ds.kind = "chunk" /\ ds.path # "" THEN ds ELSE Undefined,
         fileData |-> IF ds.kind = "string" \/ (ds.kind = "chunk" /\ ds.path # "")
                      THEN Undefined ELSE ds]

\* the truthiness of a leaf field
Truthy(x) ==
    CASE x.kind = "undefined" -> FALSE
      [] x.kind = "string" -> x.path # ""
      [] OTHER -> TRUE

\* leaf.absoluteFilePath ? leaf.absoluteFilePath : (leaf.fileChunk ? leaf.fileChunk : leaf.fileData)
LeafDataSource(leaf) ==
    IF Truthy(leaf.absoluteFilePath) THEN leaf.absoluteFilePath
    ELSE IF Truthy(leaf.fileChunk) THEN leaf.fileChunk
    ELSE leaf.fileData

(***************************************************************************)
(* The Vpk object.                                                         *)
(***************************************************************************)
NewVpk ==
    [version |-> Num(2), treeLength |-> 0, headerLength |-> 28, tree |-> <<>>,
     fileCount |-> 0]

getVersion(v) == v.version

SetVersionThrows(version) == NumLt(version, Num(1)) \/ NumLt(Num(2), version)

setVersion(v, version) ==
    IF SetVersionThrows(version)
    THEN [vpk |-> v, threw |-> TRUE]
    ELSE [vpk |-> [v EXCEPT !.version = version,
                            !.headerLength = IF version = Num(1) THEN 12 ELSE 28],
          threw |-> FALSE]

LeafNames(leafArr) == { leafArr[i].fileName : i \in 1..Len(leafArr) }

\* addFile without its duplicate test
AddFileNoDuplicateTest(leafArr, file) == FALSE

\* the duplicate test of addFile
AddFileIsDuplicate(leafArr, file) == file.extlessFileName \in LeafNames(leafArr)

\* an addFile that counts the name and its NUL but not the metadata record
LeafLengthNoRecord(file) == Len(file.extlessFileName) + 1

\* this._treeLength += file.extlessFileName.length + 1 + 18
LeafLength(file) == Len(file.extlessFileName) + 1 + 18

\* an addFile that pushes the leaf before it looks for a duplicate
LeavesAtThrowPushed(leafArr, file) == Append(leafArr, NewLeaf(file))

\* the leaf array when the duplicate test throws: the push comes after the loop
LeavesAtThrow(leafArr, file) == leafArr

addFile(v, file) ==
    LET fixedRelPath == FixRelPath(file.relPath)
        ext    == file.extension
        len0   == IF v.treeLength = 0 THEN 1 ELSE v.treeLength
        hasExt == ObjHas(v.tree, ext)
        tree1  == IF hasExt THEN v.tree ELSE ObjSet(v.tree, ext, <<>>)
        len1   == IF hasExt THEN len0 ELSE len0 + Len(ext) + 2
        bucket == ObjGet(tree1, ext)
        hasRel == ObjHas(bucket, fixedRelPath)
        tree2  == IF hasRel THEN tree1
                  ELSE ObjSet(tree1, ext, ObjSet(bucket, fixedRelPath, <<>>))
        len2   == IF hasRel THEN len1 ELSE len1 + Len(fixedRelPath) + 2
        leafArr == ObjGet(ObjGet(tree2, ext), fixedRelPath)
        tree3  == ObjSet(tree2, ext,
                         ObjSet(ObjGet(tree2, ext), fixedRelPath,
                                Append(leafArr, NewLeaf(file))))
    IN  IF AddFileIsDuplicate(leafArr, file)
        THEN [vpk |-> [v EXCEPT !.tree = ObjSet(tree2, ext,
                                                ObjSet(ObjGet(tree2, ext), fixedRelPath,
                                                       LeavesAtThrow(leafArr, file))),
                                !.treeLength = len2],
              threw |-> TRUE]
        ELSE [vpk |-> [v EXCEPT !.tree = tree3,
                                !.treeLength = len2 + LeafLength(file),
                                !.fileCount = v.fileCount + 1],
              threw |-> FALSE]

\* the FileInPak getFiles and getFile build from a leaf
LeafToFile(ext, relPath, leaf) ==
    FileInPak(ext, Trim(relPath), leaf.fileName, LeafDataSource(leaf))

RECURSIVE LeavesToFiles(_, _, _)
LeavesToFiles(ext, relPath, leafArr) ==
    IF leafArr = <<>> THEN <<>>
    ELSE <<LeafToFile(ext, relPath, Head(leafArr))>>
            \o LeavesToFiles(ext, relPath, Tail(leafArr))

RECURSIVE PathsToFiles(_, _, _)
PathsToFiles(ext, bucket, relPaths) ==
    IF relPaths = <<>> THEN <<>>
    ELSE LeavesToFiles(ext, Head(relPaths), ObjGet(bucket, Head(relPaths)))
            \o PathsToFiles(ext, bucket, Tail(relPaths))

RECURSIVE ExtsToFiles(_, _)
ExtsToFiles(tree, exts) ==
    IF exts = <<>> THEN <<>>
    ELSE PathsToFiles(Head(exts), ObjGet(tree, Head(exts)), ForIn(ObjGet(tree, Head(exts))))
            \o ExtsToFiles(tree, Tail(exts))

getFiles(v) == ExtsToFiles(v.tree, ForIn(v.tree))

Null == [extension |-> <<>>, relPath |-> <<>>, extlessFileName |-> <<>>,
         dataSource |-> [kind |-> "null", path |-> "", offset |-> 0, length |-> 0,
                         bytes |-> <<>>]]

\* a search that looks at the first leaf only
FirstLeafOnly(leafArr, name, i) ==
    IF leafArr # <<>> /\ leafArr[1].fileName = name THEN 1 ELSE 0

\* the index of the first leaf with that name, 0 when there is none
RECURSIVE FirstLeaf(_, _, _)
FirstLeaf(leafArr, name, i) ==
    IF i > Len(leafArr) THEN 0
    ELSE IF leafArr[i].fileName = name THEN i
    ELSE FirstLeaf(leafArr, name, i + 1)

getFile(v, extension, relPath, extlessFileName) ==
    LET fixedRelPath == FixRelPath(relPath)
    IN  IF ObjHas(v.tree, extension) /\ ObjHas(ObjGet(v.tree, extension), fixedRelPath)
        THEN LET leafArr == ObjGet(ObjGet(v.tree, extension), fixedRelPath)
                 i == FirstLeaf(leafArr, extlessFileName, 1)
             IN  IF i > 0 THEN LeafToFile(extension, fixedRelPath, leafArr[i]) ELSE Null
        ELSE Null

\* leafArr.splice(targetIndex): the count left out
SpliceToEnd(leafArr, i) == SubSeq(leafArr, 1, i - 1)

\* leafArr.splice(targetIndex, 1)
Splice1(leafArr, i) == SubSeq(leafArr, 1, i - 1) \o SubSeq(leafArr, i + 1, Len(leafArr))

removeFile(v, extension, relPath, extlessFileName) ==
    LET fixedRelPath == FixRelPath(relPath)
    IN  IF ObjHas(v.tree, extension) /\ ObjHas(ObjGet(v.tree, extension), fixedRelPath)
        THEN LET bucket == ObjGet(v.tree, extension)
                 leafArr == ObjGet(bucket, fixedRelPath)
                 targetIndex == FirstLeaf(leafArr, extlessFileName, 1)
             IN  IF targetIndex > 0
                 THEN [v EXCEPT !.tree = ObjSet(v.tree, extension,
                                    ObjSet(bucket, fixedRelPath, Splice1(leafArr, targetIndex)))]
                 ELSE v
        ELSE v

(***************************************************************************)
(* Bytes, little-endian integers and the text encoding.                    *)
(***************************************************************************)
RECURSIVE Zeros(_)
Zeros(n) == IF n <= 0 THEN <<>> ELSE <<0>> \o Zeros(n - 1)

\* Buffer.writeUInt32LE, Buffer.writeUInt16LE
U32LE(n) == <<n % 256, (n \div 256) % 256, (n \div 65536) % 256, (n \div 16777216) % 256>>

U16LE(n) == <<n % 256, (n \div 256) % 256>>

\* the top byte of a 32-bit field is read up to this value and no further (every
\* file of the model is far shorter than 2^24 bytes, so a larger offset or
\* length behaves as this one does: it lies past the end of the file)
TopByteCap == 30

\* Buffer.readUInt32LE(off), Buffer.readUInt16LE(off); off counts from 0
ReadU32LE(b, off) ==
    b[off + 1] + 256 * b[off + 2] + 65536 * b[off + 3]
        + 16777216 * Min(b[off + 4], TopByteCap)

ReadU16LE(b, off) == b[off + 1] + 256 * b[off + 2]

\* Buffer.from(str, 'utf-8') for one UTF-16 code unit (the BMP, no surrogates)
EncodeChar(c) ==
    IF c < 128 THEN <<c>>
    ELSE IF c < 2048 THEN <<192 + (c \div 64), 128 + (c % 64)>>
    ELSE <<224 + (c \div 4096), 128 + ((c \div 64) % 64), 128 + (c % 64)>>

RECURSIVE Encode(_)
Encode(str) == IF str = <<>> THEN <<>> ELSE EncodeChar(Head(str)) \o Encode(Tail(str))

\* U+FFFD, what decoding an invalid sequence gives
Replacement == 65533

\* sourceBuf.toString('utf-8') of a buffer of one byte
DecodeByte(b) == IF b < 128 THEN b ELSE Replacement

(***************************************************************************)
(* CRC-32 (the zip polynomial), on 32-bit words kept as four little-endian *)
(* bytes.                                                                  *)
(***************************************************************************)
RECURSIVE XorBits(_, _, _)
XorBits(a, b, n) ==
    IF n = 0 THEN 0
    ELSE ((a + b) % 2) + 2 * XorBits(a \div 2, b \div 2, n - 1)

Xor8(a, b) == XorBits(a, b, 8)

Xor32(x, y) == <<Xor8(x[1], y[1]), Xor8(x[2], y[2]), Xor8(x[3], y[3]), Xor8(x[4], y[4])>>

\* c >>> 1
Shr1(x) ==
    <<(x[1] \div 2) + 128 * (x[2] % 2), (x[2] \div 2) + 128 * (x[3] % 2),
      (x[3] \div 2) + 128 * (x[4] % 2), x[4] \div 2>>

\* crc >>> 8
Shr8(x) == <<x[2], x[3], x[4], 0>>

\* 0xEDB88320
CrcPoly == <<32, 131, 184, 237>>

\* -1
AllOnes == <<255, 255, 255, 255>>

RECURSIVE CrcTableStep(_, _)
CrcTableStep(c, k) ==
    IF k = 0 THEN c
    ELSE CrcTableStep(IF c[1] % 2 = 1 THEN Xor32(CrcPoly, Shr1(c)) ELSE Shr1(c), k - 1)

makeCrc32Table == [n \in 0..255 |-> CrcTableStep(<<n, 0, 0, 0>>, 8)]

crc32Table == makeCrc32Table

\* the loop of crc32 (the test of Len(next) has TLC compute next before it goes on)
RECURSIVE CrcLoop(_, _)
CrcLoop(crc, buf) ==
    IF buf = <<>> THEN crc
    ELSE LET next == Xor32(Shr8(crc), crc32Table[Xor8(crc[1], Head(buf))])
         IN  IF Len(next) = 4 THEN CrcLoop(next, Tail(buf)) ELSE next

\* crc32(crc, buf, buf.length, 0)
crc32(crc, buf) == Xor32(CrcLoop(Xor32(crc, AllOnes), buf), AllOnes)

\* checksum = 0
CrcZero == <<0, 0, 0, 0>>

RECURSIVE StripZeros(_)
StripZeros(ds) == IF Len(ds) > 1 /\ Head(ds) = 0 THEN StripZeros(Tail(ds)) ELSE ds

\* n.toString(16) of an unsigned 32-bit number: its hexadecimal digits
CrcStr(x) ==
    StripZeros(<<x[4] \div 16, x[4] % 16, x[3] \div 16, x[3] % 16,
                 x[2] \div 16, x[2] % 16, x[1] \div 16, x[1] % 16>>)

(***************************************************************************)
(* MD5 (spark-md5) is outside the repository.  The model keeps what the    *)
(* code relies on: a digest of 16 bytes that is a function of the bytes    *)
(* appended, in order, and of their number.  The digest of the empty input *)
(* is the real one.                                                        *)
(***************************************************************************)
Md5Empty == <<212, 29, 140, 217, 143, 0, 178, 4, 233, 128, 9, 152, 236, 248, 66, 126>>

\* the weighted sum of bytes[lo..hi], by halves
RECURSIVE Md5Sum(_, _, _, _)
Md5Sum(bytes, lo, hi, weighted) ==
    IF lo > hi THEN 0
    ELSE IF lo = hi
    THEN (IF weighted THEN ((lo % 7) + 1) * (bytes[lo] + 1) ELSE bytes[lo] + 1)
    ELSE LET mid == (lo + hi) \div 2
         IN  Md5Sum(bytes, lo, mid, weighted) + Md5Sum(bytes, mid + 1, hi, weighted)

\* md5.ArrayBuffer: append ... end(true)
Md5(bytes) ==
    IF bytes = <<>> THEN Md5Empty
    ELSE <<Md5Sum(bytes, 1, Len(bytes), FALSE) % 251,
           Md5Sum(bytes, 1, Len(bytes), TRUE) % 241, Len(bytes) % 256, 77>>
             \o Zeros(11) \o <<1>>

\* Buffer.toString('hex') and md5.end(): two hexadecimal digits a byte
RECURSIVE ToHex(_)
ToHex(bytes) ==
    IF bytes = <<>> THEN <<>>
    ELSE <<Head(bytes) \div 16, Head(bytes) % 16>> \o ToHex(Tail(bytes))

\* Buffer.from(hexString, 'hex')
RECURSIVE FromHex(_)
FromHex(ds) ==
    IF Len(ds) < 2 THEN <<>>
    ELSE <<16 * ds[1] + ds[2]>> \o FromHex(SubSeq(ds, 3, Len(ds)))

(***************************************************************************)
(* Files: fs.readSync and fs.writeSync at a position.                      *)
(***************************************************************************)
\* the bytes fs.readSync(fd, buf, 0, length, position) reads
ReadAt(bytes, position, length) ==
    IF length <= 0 \/ position >= Len(bytes) THEN <<>>
    ELSE SubSeq(bytes, position + 1, Min(position + length, Len(bytes)))

\* the buffer after the read: what was read, then what the buffer held
ReadInto(buf, bytes, position) ==
    LET got == ReadAt(bytes, position, Len(buf))
    IN  got \o SubSeq(buf, Len(got) + 1, Len(buf))

\* the file after fs.writeSync(fd, data, 0, null, position)
WriteAt(bytes, position, data) ==
    IF data = <<>> THEN bytes
    ELSE LET padded == IF Len(bytes) < position
                       THEN bytes \o Zeros(position - Len(bytes)) ELSE bytes
         IN  SubSeq(padded, 1, position) \o data
                \o SubSeq(padded, position + Len(data) + 1, Len(padded))

(***************************************************************************)
(* saveToFile.  The target file is written at explicit positions; `s` is   *)
(* the state of one call: the bytes of the target so far, pakPos,          *)
(* dataOffset, embedChunkLength, and how the call ends ("ok", "threw",     *)
(* or "hang" when a read loop never ends).                                 *)
(***************************************************************************)
MAGIC == 1437209140        \* 0x55aa1234

\* Buffer.alloc(16000) of the copy loops
CopyChunk == 16000

\* chunkSize = 2 ** 14 of the checksum loops
Md5Chunk == 16384

\* what writeUInt32LE stores for the version
VersionField(version) == version.w

\* the bytes of a file as a call sees them: the target is the file being written
Source(d, target, s, path) == IF path = target THEN s.bytes ELSE d[path].bytes

\* the copy loop of the file branch and of the file chunk branch; `left` is the
\* number of bytes still wanted (the whole file: no limit but the chunk size)
RECURSIVE CopyLoop(_, _, _, _, _, _, _)
CopyLoop(d, target, s, path, sourcePos, left, whole) ==
    LET want == IF whole THEN CopyChunk ELSE Min(CopyChunk, left)
        got  == ReadAt(Source(d, target, s, path), sourcePos, want)
    IN  IF got = <<>> THEN s
        ELSE CopyLoop(d, target,
                      [s EXCEPT !.bytes = WriteAt(s.bytes, s.pos, got),
                                !.pos = s.pos + Len(got),
                                !.checksum = crc32(s.checksum, got)],
                      path, sourcePos + Len(got), left - Len(got), whole)

\* the data of one leaf written at pakPos = dataOffset
WriteData(d, target, s, leaf) ==
    IF Truthy(leaf.fileData)
    THEN [s EXCEPT !.bytes = WriteAt(s.bytes, s.pos, leaf.fileData.bytes),
                   !.pos = s.pos + Len(leaf.fileData.bytes)]
    ELSE IF Truthy(leaf.absoluteFilePath)
    THEN LET path == leaf.absoluteFilePath.path
         IN  IF path # target /\ ~d[path].exists THEN [s EXCEPT !.outcome = "threw"]
             ELSE IF path = target THEN [s EXCEPT !.outcome = "hang"]
             ELSE CopyLoop(d, target, s, path, 0, 0, TRUE)
    ELSE LET fileChunk == leaf.fileChunk
         IN  IF fileChunk.path # target /\ ~d[fileChunk.path].exists
             THEN [s EXCEPT !.outcome = "threw"]
             ELSE CopyLoop(d, target, s, fileChunk.path, fileChunk.offset,
                           fileChunk.length, FALSE)

\* the 18 bytes of a metadata record
MetadataRecord(checksum, archiveOffset, fileLength) ==
    checksum \o U16LE(0) \o U16LE(32767) \o U32LE(archiveOffset) \o U32LE(fileLength)
        \o U16LE(65535)

\* pakPos += fs.writeSync(pakFd, nullTermBuf, 0, null, pakPos)
WriteNul(s) == [s EXCEPT !.bytes = WriteAt(s.bytes, s.pos, <<0>>), !.pos = s.pos + 1]

\* a string of the tree and the NUL after it, both at pakPos
WriteString(s, str) == WriteNul([s EXCEPT !.bytes = WriteAt(s.bytes, s.pos, Encode(str)),
                                          !.pos = s.pos + Len(Encode(str))])

\* a saveToFile that stores the position of the data in the file as the archive
\* offset
WriteMetadataFilePosition(v, s, metadataOffset, fileOffset) ==
    IF s.outcome # "ok" THEN s
    ELSE [s EXCEPT !.dataOffset = s.pos,
                   !.embed = s.embed + (s.pos - fileOffset),
                   !.bytes = WriteAt(s.bytes, metadataOffset,
                                     MetadataRecord(s.checksum, fileOffset,
                                                    s.pos - fileOffset)),
                   !.pos = metadataOffset + 18]

\* the metadata record of a leaf, written at metadataOffset once the data of
\* the leaf is written (s is the call after the data)
WriteMetadata(v, s, metadataOffset, fileOffset) ==
    IF s.outcome # "ok" THEN s
    ELSE [s EXCEPT !.dataOffset = s.pos,
                   !.embed = s.embed + (s.pos - fileOffset),
                   !.bytes = WriteAt(s.bytes, metadataOffset,
                                     MetadataRecord(s.checksum,
                                                    fileOffset - v.treeLength - v.headerLength,
                                                    s.pos - fileOffset)),
                   !.pos = metadataOffset + 18]

\* the data of a leaf at the data cursor, then its metadata record (s is the
\* call after the name of the leaf)
WriteDataAndMetadata(d, target, v, s, leaf) ==
    WriteMetadata(v, WriteData(d, target,
                               [s EXCEPT !.pos = s.dataOffset, !.checksum = CrcZero], leaf),
                  s.pos, s.dataOffset)

\* one leaf: its name, its data at the data cursor, its metadata record
WriteLeaf(d, target, v, s, leaf) ==
    WriteDataAndMetadata(d, target, v, WriteString(s, leaf.fileName), leaf)

\* the NUL that ends a list of the tree, unless the call has ended
EndList(s) == IF s.outcome = "ok" THEN WriteNul(s) ELSE s

RECURSIVE WriteLeaves(_, _, _, _, _)
WriteLeaves(d, target, v, s, leafList) ==
    IF leafList = <<>> \/ s.outcome # "ok" THEN s
    ELSE WriteLeaves(d, target, v, WriteLeaf(d, target, v, s, Head(leafList)),
                     Tail(leafList))

\* relPath.split(path.sep).join('/') where path.sep is '/'
NormRelPath(relPath) == relPath

RECURSIVE WritePaths(_, _, _, _, _, _)
WritePaths(d, target, v, s, bucket, relPaths) ==
    IF relPaths = <<>> \/ s.outcome # "ok" THEN s
    ELSE WritePaths(d, target, v,
                    EndList(WriteLeaves(d, target, v,
                                        WriteString(s, NormRelPath(Head(relPaths))),
                                        ObjGet(bucket, Head(relPaths)))),
                    bucket, Tail(relPaths))

RECURSIVE WriteExts(_, _, _, _, _)
WriteExts(d, target, v, s, exts) ==
    IF exts = <<>> \/ s.outcome # "ok" THEN s
    ELSE WriteExts(d, target, v,
                   EndList(WritePaths(d, target, v, WriteString(s, Head(exts)),
                                      ObjGet(v.tree, Head(exts)),
                                      ForIn(ObjGet(v.tree, Head(exts))))),
                   Tail(exts))

\* the 12 bytes every header starts with, and the 16 more of version 2
HeaderV1(version, treeLength) == U32LE(MAGIC) \o U32LE(version) \o U32LE(treeLength)

HeaderV2Rest == U32LE(0) \o U32LE(0) \o U32LE(48) \o U32LE(0)

\* while (pakPos < limit) { bytesRead = readSync(...); pakPos += bytesRead; ... }:
\* the bytes appended to the checksums, and whether the loop ends
RECURSIVE ReadRange(_, _, _, _)
ReadRange(bytes, pakPos, limit, acc) ==
    IF pakPos >= limit THEN [read |-> acc, ends |-> TRUE]
    ELSE LET got == ReadAt(bytes, pakPos, Min(Md5Chunk, limit - pakPos))
         IN  IF got = <<>> THEN [read |-> acc, ends |-> FALSE]
             ELSE ReadRange(bytes, pakPos + Len(got), limit, acc \o got)

\* the three checksums at the end of a version-2 file: `header`, `tree` and
\* `data` are what the three read loops appended
WriteChecksums(s, header, tree, data) ==
    IF ~tree.ends \/ ~data.ends THEN [s EXCEPT !.outcome = "hang"]
    ELSE [s EXCEPT !.bytes = WriteAt(s.bytes, Len(header) + Len(tree.read) + Len(data.read),
                                     Md5(tree.read) \o Md5(<<>>)
                                        \o Md5(header \o tree.read \o data.read
                                                   \o Md5(tree.read) \o Md5(<<>>))),
                   !.pos = Len(header) + Len(tree.read) + Len(data.read) + 48]

\* the read loop over the file data, which starts where the loop over the tree
\* stopped
ReadDataAndWriteChecksums(s, header, tree) ==
    WriteChecksums(s, header, tree,
                   ReadRange(s.bytes, Len(header) + Len(tree.read),
                             Len(header) + Len(tree.read) + s.embed, <<>>))

\* the read loops over the header and the tree (s is the call after
\* embedChunkLength is written)
ReadAndWriteChecksums(v, s) ==
    ReadDataAndWriteChecksums(s, ReadInto(Zeros(v.headerLength), s.bytes, 0),
                              ReadRange(s.bytes, v.headerLength,
                                        v.headerLength + v.treeLength, <<>>))

\* the version-2 tail of saveToFile: embedChunkLength at 12, then the checksums
WriteTrailer(v, s) ==
    IF s.outcome # "ok" \/ v.version # Num(2) THEN s
    ELSE ReadAndWriteChecksums(v, [s EXCEPT !.bytes = WriteAt(s.bytes, 12, U32LE(s.embed))])

\* the header, before anything else is written
WriteHeader(v) ==
    [bytes |-> HeaderV1(VersionField(v.version), v.treeLength)
                  \o (IF v.version = Num(2) THEN HeaderV2Rest ELSE <<>>),
     pos |-> IF v.version = Num(2) THEN 28 ELSE 12,
     dataOffset |-> v.headerLength + v.treeLength, embed |-> 0,
     checksum |-> CrcZero, outcome |-> "ok"]

\* the call between fs.openSync(absFilePath, 'w+') and fs.closeSync(pakFd)
SaveBytes(v, d, target) ==
    WriteTrailer(v, EndList(WriteExts(d, target, v, WriteHeader(v), ForIn(v.tree))))

\* the disk once the call has ended as s
Saved(d, absFilePath, s) ==
    [disk |-> [d EXCEPT ![absFilePath] = [exists |-> TRUE, bytes |-> s.bytes]],
     outcome |-> s.outcome]

\* saveToFile(absFilePath) with the parent directory in place: the disk after
\* the call and how the call ended
saveToFile(v, d, absFilePath) == Saved(d, absFilePath, SaveBytes(v, d, absFilePath))

\* path.dirname for the paths of the model: /n/C lies in /n, the others in the root
dirname(absFilePath) == IF absFilePath = "/n/C" THEN "/n" ELSE "/"

\* fs.existsSync and fs.accessSync of a directory; the root is always there
DirExists(d, dirPath) == dirPath = "/" \/ d[dirPath].exists

\* a saveToFile that makes the parent directory whatever createParentDirs is
MakeParentDirsAlways(d, dirPath, createParentDirs) ==
    IF ~DirExists(d, dirPath) THEN [d EXCEPT ![dirPath].exists = TRUE] ELSE d

\* if (createParentDirs) { if (!fs.existsSync(dirPath)) fs.mkdirSync(dirPath, ...) }
MakeParentDirs(d, dirPath, createParentDirs) ==
    IF createParentDirs /\ ~DirExists(d, dirPath)
    THEN [d EXCEPT ![dirPath].exists = TRUE] ELSE d

\* fs.accessSync(dirPath, W_OK) succeeds
validateWriteDirectoryPath(d, dirPath) == DirExists(d, dirPath)

\* saveToFile(absFilePath, createParentDirs) from its first line
saveToFileAt(v, d, absFilePath, createParentDirs) ==
    LET Made(d1) ==
            IF ~validateWriteDirectoryPath(d1, dirname(absFilePath))
            THEN [disk |-> d1, outcome |-> "threw"]
            ELSE saveToFile(v, d1, absFilePath)
    IN  Made(MakeParentDirs(d, dirname(absFilePath), createParentDirs))

(***************************************************************************)
(* Reading an archive: readNextStringFromFile, getFileIndexTree,           *)
(* indexFromFileInternal.  A result carries `err`, the message of the      *)
(* Error thrown, or "" when the call returns.                              *)
(***************************************************************************)
RESPAWN == 196610          \* 0x00030002

\* the string up to the next 0 byte or the end of the file, decoded a byte at a
\* time, and the number of bytes consumed
RECURSIVE readNextStringFromFile(_, _)
readNextStringFromFile(bytes, position) ==
    IF position >= Len(bytes) THEN [result |-> <<>>, bytesRead |-> 0]
    ELSE IF bytes[position + 1] = 0 THEN [result |-> <<>>, bytesRead |-> 1]
    ELSE LET rest == readNextStringFromFile(bytes, position + 1)
         IN  [result |-> <<DecodeByte(bytes[position + 1])>> \o rest.result,
              bytesRead |-> rest.bytesRead + 1]

\* a metadata object that keeps the archive offset as the record holds it
IndexMetadataRawOffset(sourceBuf, headerLength, treeLength) ==
    [crc32 |-> SubSeq(sourceBuf, 1, 4),
     preloadLength |-> ReadU16LE(sourceBuf, 4),
     archiveIndex |-> IF ReadU16LE(sourceBuf, 6) = 32767
                      THEN headerLength + treeLength + ReadU32LE(sourceBuf, 8)
                      ELSE ReadU16LE(sourceBuf, 6),
     archiveOffset |-> ReadU32LE(sourceBuf, 8),
     fileLength |-> ReadU32LE(sourceBuf, 12),
     suffix |-> ReadU16LE(sourceBuf, 16)]

\* the metadata object of a leaf, built from the 18 bytes of its record
IndexMetadata(sourceBuf, headerLength, treeLength) ==
    LET archiveIndex  == ReadU16LE(sourceBuf, 6)
        archiveOffset == ReadU32LE(sourceBuf, 8)
    IN  [crc32 |-> SubSeq(sourceBuf, 1, 4),
         preloadLength |-> ReadU16LE(sourceBuf, 4),
         archiveIndex |-> IF archiveIndex = 32767
                          THEN headerLength + treeLength + archiveOffset
                          ELSE archiveIndex,
         archiveOffset |-> archiveOffset + treeLength + headerLength,
         fileLength |-> ReadU32LE(sourceBuf, 12),
         suffix |-> ReadU16LE(sourceBuf, 16)]

\* a parser without the suffix test
SuffixNotTested(sourceBuf) == FALSE

\* if (suffix !== 0xffff) throw
SuffixWrong(sourceBuf) == ReadU16LE(sourceBuf, 16) # 65535

\* the innermost loop: the leaves of one relPath
RECURSIVE ReadNames(_, _, _, _, _)
ReadNames(bytes, headerLength, treeLength, pakPos, leaves) ==
    LET Named(r) ==
            LET pos1 == pakPos + r.bytesRead
                sourceBuf == ReadInto(Zeros(18), bytes, pos1)
                pos2 == pos1 + Len(ReadAt(bytes, pos1, 18))
            IN  IF r.result = <<>> THEN [val |-> leaves, pos |-> pos1, err |-> ""]
                ELSE IF SuffixWrong(sourceBuf)
                THEN [val |-> leaves, pos |-> pos2, err |-> "Error while parsing index"]
                ELSE ReadNames(bytes, headerLength, treeLength, pos2,
                               Append(leaves,
                                      [fileName |-> r.result,
                                       metadata |-> IndexMetadata(sourceBuf, headerLength,
                                                                  treeLength)]))
    IN  Named(readNextStringFromFile(bytes, pakPos))

\* the middle loop: the relPaths of one extension
RECURSIVE ReadPaths(_, _, _, _, _)
ReadPaths(bytes, headerLength, treeLength, pakPos, bucket) ==
    LET Listed(r, names) ==
            IF names.err # ""
            THEN [val |-> ObjSet(bucket, r.result, names.val), pos |-> names.pos,
                  err |-> names.err]
            ELSE ReadPaths(bytes, headerLength, treeLength, names.pos,
                           ObjSet(bucket, r.result, names.val))
        Named(r) ==
            IF r.result = <<>>
            THEN [val |-> bucket, pos |-> pakPos + r.bytesRead, err |-> ""]
            ELSE Listed(r, ReadNames(bytes, headerLength, treeLength,
                                     pakPos + r.bytesRead, <<>>))
    IN  Named(readNextStringFromFile(bytes, pakPos))

\* the outer loop: the extensions
RECURSIVE ReadExts(_, _, _, _, _, _)
ReadExts(bytes, headerLength, treeLength, maxIndex, pakPos, tree) ==
    IF pakPos > maxIndex
    THEN [val |-> tree, pos |-> pakPos, err |-> "Error parsing index (out of bounds)"]
    ELSE LET Listed(r, paths) ==
                 IF paths.err # ""
                 THEN [val |-> ObjSet(tree, r.result, paths.val), pos |-> paths.pos,
                       err |-> paths.err]
                 ELSE ReadExts(bytes, headerLength, treeLength, maxIndex, paths.pos,
                               ObjSet(tree, r.result, paths.val))
             Named(r) ==
                 IF r.result = <<>>
                 THEN [val |-> tree, pos |-> pakPos + r.bytesRead, err |-> ""]
                 ELSE Listed(r, ReadPaths(bytes, headerLength, treeLength,
                                          pakPos + r.bytesRead, <<>>))
         IN  Named(readNextStringFromFile(bytes, pakPos))

getFileIndexTree(bytes, headerLength, treeLength, maxIndex) ==
    ReadExts(bytes, headerLength, treeLength, maxIndex, headerLength, <<>>)

NoV2Metadata ==
    [defined |-> FALSE, embedChunkLength |-> 0, chunkHashesLength |-> 0,
     hashesLength |-> 0, signatureLength |-> 0, treeChecksum |-> <<>>,
     chunkHashesChecksum |-> <<>>, fileChecksum |-> <<>>]

IndexFailure(msg) ==
    [err |-> msg, fileIndexTree |-> <<>>, vpkVersion |-> 0, vpkTreeLength |-> 0,
     vpkV2Metadata |-> NoV2Metadata]

\* the 16 further header bytes of version 2 and the three checksums
ReadV2Metadata(bytes, treeLength) ==
    LET sourceBuf == ReadInto(Zeros(16), bytes, 12)
        embedChunkLength  == ReadU32LE(sourceBuf, 0)
        chunkHashesLength == ReadU32LE(sourceBuf, 4)
        pos0 == Len(ReadAt(bytes, 0, 12)) + Len(ReadAt(bytes, 12, 16)) + treeLength
                    + embedChunkLength
                    + chunkHashesLength
        buf1 == ReadInto(Zeros(16), bytes, pos0)
        pos1 == pos0 + Len(ReadAt(bytes, pos0, 16))
        buf2 == ReadInto(buf1, bytes, pos1)
        pos2 == pos1 + Len(ReadAt(bytes, pos1, 16))
        buf3 == ReadInto(buf2, bytes, pos2)
    IN  [defined |-> TRUE, embedChunkLength |-> embedChunkLength,
         chunkHashesLength |-> chunkHashesLength,
         hashesLength |-> ReadU32LE(sourceBuf, 8),
         signatureLength |-> ReadU32LE(sourceBuf, 12),
         treeChecksum |-> ToHex(buf1), chunkHashesChecksum |-> ToHex(buf2),
         fileChecksum |-> ToHex(buf3)]

\* the two checks in the other order
HeaderCheckVersionFirst(sourceBuf) ==
    IF ReadU32LE(sourceBuf, 4) = RESPAWN THEN "Respawn uses a customized VPK format"
    ELSE IF SubSeq(sourceBuf, 1, 4) # U32LE(MAGIC) THEN "File missing header magic"
    ELSE ""

\* the checks of the first 12 bytes: the message thrown, "" when they pass
HeaderCheck(sourceBuf) ==
    IF SubSeq(sourceBuf, 1, 4) # U32LE(MAGIC) THEN "File missing header magic"
    ELSE IF ReadU32LE(sourceBuf, 4) = RESPAWN THEN "Respawn uses a customized VPK format"
    ELSE ""

indexFromFileInternal(d, absFilePath) ==
    IF ~d[absFilePath].exists THEN IndexFailure("ENOENT")
    ELSE
    LET bytes == d[absFilePath].bytes
        sourceBuf == ReadInto(Zeros(12), bytes, 0)
        version == ReadU32LE(sourceBuf, 4)
        treeLength == ReadU32LE(sourceBuf, 8)
        headerLength == IF version = 2 THEN 28 ELSE 12
        Indexed(vpkV2Metadata, index) ==
            IF index.err # "" THEN IndexFailure(index.err)
            ELSE [err |-> "", fileIndexTree |-> index.val, vpkVersion |-> version,
                  vpkTreeLength |-> treeLength, vpkV2Metadata |-> vpkV2Metadata]
        Versioned(vpkV2Metadata) ==
            IF version = 2 /\ vpkV2Metadata.hashesLength # 48
            THEN IndexFailure("Header hashes length mismatch")
            ELSE Indexed(vpkV2Metadata,
                         getFileIndexTree(bytes, headerLength, treeLength,
                                          treeLength + headerLength))
    IN  IF HeaderCheck(sourceBuf) # "" THEN IndexFailure(HeaderCheck(sourceBuf))
        ELSE Versioned(IF version = 2 THEN ReadV2Metadata(bytes, treeLength)
                       ELSE NoV2Metadata)

(***************************************************************************)
(* indexFromFile, fromFile, verifyFile.                                    *)
(***************************************************************************)
\* for (ext in tree) for (relPath in tree[ext]) for (i ...): the leaves in the
\* order the three loops visit them
IndexLeaves(fileIndexTree) ==
    LET exts == ForIn(fileIndexTree)
        OfPath(ext, bucket, relPath) ==
            LET leaves == ObjGet(bucket, relPath)
            IN  [i \in 1..Len(leaves) |->
                    [ext |-> ext, relPath |-> relPath, leaf |-> leaves[i]]]
        OfExt(ext) ==
            LET bucket == ObjGet(fileIndexTree, ext)
                relPaths == ForIn(bucket)
            IN  Flatten([j \in 1..Len(relPaths) |-> OfPath(ext, bucket, relPaths[j])])
    IN  Flatten([e \in 1..Len(exts) |-> OfExt(exts[e])])

\* the name built without the test for the root path
EntryNameNoRootTest(e) == e.relPath \o <<47>> \o e.leaf.fileName \o <<46>> \o e.ext

\* relPath.trim() !== '' ? relPath + '/' + fileName + '.' + ext : fileName + '.' + ext
EntryName(e) ==
    (IF Trim(e.relPath) # <<>> THEN e.relPath \o <<47>> ELSE <<>>)
        \o e.leaf.fileName \o <<46>> \o e.ext

\* fs.accessSync(path, R_OK) succeeds
validateReadFileOrDirectoryPath(d, path) == d[path].exists

\* the IndexEntry array made of the leaves in the order of the loops
IndexEntries(entries) ==
    [i \in 1..Len(entries) |->
        [relPath |-> EntryName(entries[i]), metadata |-> entries[i].leaf.metadata]]

indexFromFile(d, absFilePath) ==
    LET Indexed(r) ==
            IF r.err # "" THEN [threw |-> TRUE, retArr |-> <<>>]
            ELSE [threw |-> FALSE, retArr |-> IndexEntries(IndexLeaves(r.fileIndexTree))]
    IN  IF ~validateReadFileOrDirectoryPath(d, absFilePath)
        THEN [threw |-> TRUE, retArr |-> <<>>]
        ELSE Indexed(indexFromFileInternal(d, absFilePath))

\* the addFile calls of fromFile, until one throws
RECURSIVE AddIndexLeaves(_, _, _)
\* a fromFile that gives every entry the whole file as its data source
IndexLeafSourceWholeFile(absFilePath, e) == SrcPath(absFilePath)

\* { absolutePath: absFilePath, offset: leaf.metadata.archiveOffset,
\*   length: leaf.metadata.fileLength } as FileChunk
IndexLeafSource(absFilePath, e) ==
    SrcChunk(absFilePath, e.leaf.metadata.archiveOffset, e.leaf.metadata.fileLength)

AddIndexLeaves(v, absFilePath, entries) ==
    IF entries = <<>> THEN [vpk |-> v, threw |-> FALSE]
    ELSE LET e == Head(entries)
             Added(r) ==
                 IF r.threw THEN r ELSE AddIndexLeaves(r.vpk, absFilePath, Tail(entries))
         IN  Added(addFile(v, FileInPak(e.ext, Trim(e.relPath), e.leaf.fileName,
                                        IndexLeafSource(absFilePath, e))))

fromFile(d, absFilePath) ==
    LET Versioned(r, versioned) ==
            IF versioned.threw THEN [vpk |-> NewVpk, threw |-> TRUE]
            ELSE AddIndexLeaves(versioned.vpk, absFilePath, IndexLeaves(r.fileIndexTree))
        Indexed(r) ==
            IF r.err # "" THEN [vpk |-> NewVpk, threw |-> TRUE]
            ELSE Versioned(r, setVersion(NewVpk, Num(r.vpkVersion)))
    IN  IF ~validateReadFileOrDirectoryPath(d, absFilePath)
        THEN [vpk |-> NewVpk, threw |-> TRUE]
        ELSE Indexed(indexFromFileInternal(d, absFilePath))

\* the checksum loop of verifyFile over one entry's bytes
RECURSIVE CrcRange(_, _, _, _)
CrcRange(bytes, pakPos, left, newCrc) ==
    LET got == ReadAt(bytes, pakPos, Min(CopyChunk, left))
    IN  IF got = <<>> THEN newCrc
        ELSE CrcRange(bytes, pakPos + Len(got), left - Len(got), crc32(newCrc, got))

\* the CRC32 mismatch of one entry, as the fields its message is made of
CrcError(bytes, e) ==
    [kind |-> "CRC32 mismatch", name |-> EntryName(e),
     received |-> CrcStr(e.leaf.metadata.crc32),
     calculated |-> CrcStr(CrcRange(bytes, e.leaf.metadata.archiveOffset,
                                    e.leaf.metadata.fileLength, CrcZero))]

CrcErrors(bytes, entries) ==
    SelectSeq([i \in 1..Len(entries) |-> CrcError(bytes, entries[i])],
              LAMBDA x : x.received # x.calculated)

Md5Error(kind, received, calculated) ==
    [kind |-> kind, name |-> <<>>, received |-> received, calculated |-> calculated]

\* the version-2 block of verifyFile: whether its loops end, and its messages
\* the message of a checksum that differs from the one the file holds
Md5Errors(kind, received, calculated) ==
    IF calculated # received THEN <<Md5Error(kind, received, calculated)>> ELSE <<>>

\* the version-2 block of verifyFile: whether its loops end, and its messages
VerifyV2(bytes, r) ==
    LET m == r.vpkV2Metadata
        Summed(readBuffer, tree, data, newTreeChecksumStr, newChunkHashesChecksumStr) ==
            [ends |-> tree.ends /\ data.ends,
             errors |->
                Md5Errors("Pak file checksum mismatch", m.fileChecksum,
                          ToHex(Md5(readBuffer \o tree.read \o data.read
                                        \o FromHex(newTreeChecksumStr)
                                        \o FromHex(newChunkHashesChecksumStr))))
                \o Md5Errors("Pak file tree checksum mismatch", m.treeChecksum,
                             newTreeChecksumStr)
                \o Md5Errors("Pak file chunk hashes checksum mismatch",
                             m.chunkHashesChecksum, newChunkHashesChecksumStr)]
        Read(readBuffer, tree) ==
            Summed(readBuffer, tree,
                   ReadRange(bytes, 28 + Len(tree.read),
                             28 + Len(tree.read) + m.embedChunkLength, <<>>),
                   ToHex(Md5(tree.read)), ToHex(Md5(<<>>)))
    IN  Read(ReadInto(Zeros(28), bytes, 0),
             ReadRange(bytes, 28, 28 + r.vpkTreeLength, <<>>))

\* verifyFile(absFilePath): "ok" with the array returned, "threw", or "hang"
verifyFile(d, absFilePath) ==
    LET bytes == d[absFilePath].bytes
        Summed(errorArr, v2) ==
            IF ~v2.ends THEN [outcome |-> "hang", errors |-> <<>>]
            ELSE [outcome |-> "ok", errors |-> errorArr \o v2.errors]
        Checked(r, errorArr) ==
            IF ~r.vpkV2Metadata.defined THEN [outcome |-> "ok", errors |-> errorArr]
            ELSE Summed(errorArr, VerifyV2(bytes, r))
        Indexed(r) ==
            IF r.err # "" THEN [outcome |-> "threw", errors |-> <<>>]
            ELSE Checked(r, CrcErrors(bytes, IndexLeaves(r.fileIndexTree)))
    IN  IF ~validateReadFileOrDirectoryPath(d, absFilePath)
        THEN [outcome |-> "threw", errors |-> <<>>]
        ELSE Indexed(indexFromFileInternal(d, absFilePath))

(***************************************************************************)
(* fromDirectory and walkDir.  A directory is given by the files under it, *)
(* in the order readdirSync lists them: each file by the names of the      *)
(* directories that lead to it from the root, its own name, and the path   *)
(* it is opened by.  A name is a directory when a file lies under it.      *)
(***************************************************************************)
IsPrefix(p, q) == Len(p) <= Len(q) /\ SubSeq(q, 1, Len(p)) = p

\* the names without repetition, each at its first place
RECURSIVE Distinct(_)
Distinct(names) ==
    IF names = <<>> THEN <<>>
    ELSE <<Head(names)>> \o Distinct(SelectSeq(Tail(names), LAMBDA n : n # Head(names)))

\* fs.readdirSync(dir)
readdirSync(items, dir) ==
    Distinct([i \in 1..Len(SelectSeq(items, LAMBDA it : IsPrefix(dir, it.dir))) |->
                LET it == SelectSeq(items, LAMBDA x : IsPrefix(dir, x.dir))[i]
                IN  IF it.dir = dir THEN it.name ELSE it.dir[Len(dir) + 1]])

\* fs.statSync(itemPath).isDirectory()
isDirectory(items, dir, f) == \E i \in 1..Len(items) : IsPrefix(dir \o <<f>>, items[i].dir)

\* the directories walkDir calls the directory callback on, in its order
RECURSIVE walkDir(_, _)
walkDir(items, dir) ==
    LET below == SelectSeq(readdirSync(items, dir), LAMBDA f : isDirectory(items, dir, f))
    IN  <<dir>> \o Flatten([i \in 1..Len(below) |-> walkDir(items, dir \o <<below[i]>>)])

\* path.join(absDirPath, ...dir): no slash at the end, one between the names
RECURSIVE JoinNames(_)
JoinNames(dir) == IF dir = <<>> THEN <<>> ELSE <<47>> \o Head(dir) \o JoinNames(Tail(dir))

StripEndSlashes(str) ==
    IF Len(str) > 1 /\ str[Len(str)] = 47 THEN SubSeq(str, 1, Len(str) - 1) ELSE str

WalkDirPath(absDirPath, dir) ==
    IF dir = <<>> THEN absDirPath ELSE StripEndSlashes(absDirPath) \o JoinNames(dir)

\* replace(/^\/*/g, '').replace(/^\\*/g, '')
RECURSIVE StripStart(_, _)
StripStart(str, c) ==
    IF str # <<>> /\ Head(str) = c THEN StripStart(Tail(str), c) ELSE str

\* the relPath the directory callback gives the files of a directory
DirRelPath(absDirPath, walkDirPath) ==
    IF Len(walkDirPath) > Len(absDirPath)
    THEN StripStart(StripStart(SubSeq(walkDirPath, Len(absDirPath) + 1, Len(walkDirPath)),
                               47), 92)
    ELSE <<>>

\* fileName.split('.'): the number of parts, and the last one
DotCount(fileName) == Cardinality({ i \in 1..Len(fileName) : fileName[i] = 46 })

LastDot(fileName) ==
    CHOOSE i \in 1..Len(fileName) :
        fileName[i] = 46 /\ \A j \in (i + 1)..Len(fileName) : fileName[j] # 46

FileExt(fileName) == SubSeq(fileName, LastDot(fileName) + 1, Len(fileName))

\* fileName.substring(0, fileName.length - ext.length - 1)
ExtlessFileName(fileName) == SubSeq(fileName, 1, Len(fileName) - Len(FileExt(fileName)) - 1)

\* the files the callback adds for one directory, until one has no extension
RECURSIVE AddDirFiles(_, _, _, _)
AddDirFiles(r, items, relPath, files) ==
    IF files = <<>> \/ r.threw THEN r
    ELSE LET it == Head(files)
         IN  IF DotCount(it.name) = 0 THEN [vpk |-> r.vpk, threw |-> TRUE]
             ELSE AddDirFiles(addFile(r.vpk, FileInPak(FileExt(it.name), relPath,
                                                       ExtlessFileName(it.name),
                                                       SrcPath(it.path))),
                              items, relPath, Tail(files))

RECURSIVE AddDirs(_, _, _, _)
AddDirs(r, items, absDirPath, dirs) ==
    IF dirs = <<>> \/ r.threw THEN r
    ELSE LET dir == Head(dirs)
             files == SelectSeq(items, LAMBDA it : it.dir = dir)
         IN  AddDirs(AddDirFiles(r, items,
                                 DirRelPath(absDirPath, WalkDirPath(absDirPath, dir)),
                                 files),
                     items, absDirPath, Tail(dirs))

\* Vpk.fromDirectory(absDirPath) on a directory that is, or is not, there
fromDirectory(absDirPath, exists, items) ==
    IF ~exists THEN [vpk |-> NewVpk, threw |-> TRUE]
    ELSE AddDirs([vpk |-> NewVpk, threw |-> FALSE], items, absDirPath,
                 walkDir(items, <<>>))

(***************************************************************************)
(* The inputs the operations are tried on.                                 *)
(***************************************************************************)
ExtT == <<116>>            \* "t"
ExtM == <<109>>            \* "m"
NameA == <<97>>            \* "a"
NameB == <<98>>            \* "b"
NameE == <<233>>           \* "é"
PathRoot == <<>>           \* ""
PathD == <<100, 47>>       \* "d/"
PathSpD == <<32, 100, 47>> \* " d/"

\* the files on disk that entries take their data from
InitDisk ==
    [p \in {"/s1", "/s2", "/A", "/B", "/n", "/n/C"} |->
        CASE p = "/s1" -> [exists |-> TRUE, bytes |-> <<7, 0>>]
          [] p = "/s2" -> [exists |-> TRUE, bytes |-> <<9>>]
          [] OTHER -> [exists |-> FALSE, bytes |-> <<>>]]

TreeFiles ==
    { FileInPak(ExtT, PathRoot, NameA, SrcPath("/s1")),
      FileInPak(ExtT, Sentinel, NameA, SrcBuffer(<<1>>)),
      FileInPak(ExtT, PathD, NameA, SrcChunk("/s1", 1, 1)),
      FileInPak(ExtT, PathSpD, NameB, SrcPath("/s2")),
      FileInPak(ExtM, PathRoot, NameA, SrcBuffer(<<>>)),
      FileInPak(ExtT, PathRoot, NameB, SrcChunk("/s1", 0, 2)) }

KeyOf(file) == <<file.extension, file.relPath, file.extlessFileName>>

\* a key with its relPath normalized
NormKey(key) == <<key[1], FixRelPath(key[2]), key[3]>>

LookupKeys == { KeyOf(f) : f \in TreeFiles } \cup { <<ExtM, PathD, NameB>> }

VersionInputs == { Num(0), Num(1), Num(2), Num(3), NumAndHalf(1) }

(***************************************************************************)
(* The operations as actions.  `last` records the call.                    *)
(***************************************************************************)
NoFile == FileInPak(<<>>, <<>>, <<>>, Undefined)

Call(op, threw, pre) ==
    [op |-> op, threw |-> threw, pre |-> pre, version |-> Num(0), file |-> NoFile,
     key |-> <<>>, ret |-> Null, list |-> <<>>, path |-> "", outcome |-> "ok",
     errors |-> <<>>, index |-> <<>>, createParentDirs |-> TRUE,
     io |-> <<>>, open |-> {}, pos |-> 0, depth |-> 0]

\* what the history of a run is remembered by: the paths saveToFile has written
\* to the end, the position (from 0) of the byte of /A changed behind the
\* library's back and the bytes before the change, whether vpk is what fromFile
\* gave (re-versioned to 1 or 2 at most), whether /B was saved from that, and
\* the files of the directory that vpk was made from by fromDirectory
NoHistory ==
    [written |-> {}, changedAt |-> -1, before |-> <<>>, loaded |-> FALSE,
     resaved |-> FALSE, listing |-> <<>>]

Init ==
    /\ vpk = NewVpk
    /\ disk = InitDisk
    /\ added = {}
    /\ last = Call("new", FALSE, NewVpk)
    /\ history = NoHistory

SetVersion(version) ==
    LET r == setVersion(vpk, version)
    IN  /\ vpk' = r.vpk
        /\ last' = [Call("setVersion", r.threw, vpk) EXCEPT !.version = version]
        /\ history' = [history EXCEPT !.loaded = history.loaded /\ version \in {Num(1), Num(2)}]
        /\ UNCHANGED <<disk, added>>

AddFile(file) ==
    LET r == addFile(vpk, file)
    IN  /\ vpk.fileCount < MaxFiles
        /\ vpk' = r.vpk
        /\ added' = IF r.threw THEN added ELSE added \cup {file}
        /\ last' = [Call("addFile", r.threw, vpk) EXCEPT !.file = file]
        /\ history' = [history EXCEPT !.loaded = FALSE]
        /\ UNCHANGED disk

GetFile(key) ==
    /\ last' = [Call("getFile", FALSE, vpk) EXCEPT
                    !.key = key, !.ret = getFile(vpk, key[1], key[2], key[3])]
    /\ UNCHANGED <<vpk, disk, added, history>>

GetFiles ==
    /\ last' = [Call("getFiles", FALSE, vpk) EXCEPT !.list = getFiles(vpk)]
    /\ UNCHANGED <<vpk, disk, added, history>>

RemoveFile(key) ==
    /\ vpk' = removeFile(vpk, key[1], key[2], key[3])
    /\ added' = { f \in added : NormKey(KeyOf(f)) # NormKey(key) }
    /\ last' = [Call("removeFile", FALSE, vpk) EXCEPT !.key = key]
    /\ history' = [history EXCEPT !.loaded = FALSE]
    /\ UNCHANGED disk

SaveToFile(absFilePath) ==
    LET Returned(r) ==
            /\ disk' = r.disk
            /\ last' = [Call("saveToFile", r.outcome = "threw", vpk) EXCEPT
                            !.path = absFilePath, !.outcome = r.outcome]
            /\ history' = [history EXCEPT
                            !.written = IF r.outcome = "ok" THEN @ \cup {absFilePath}
                                        ELSE @ \ {absFilePath},
                            !.resaved = IF absFilePath = "/B"
                                        THEN history.loaded /\ r.outcome = "ok" ELSE @]
            /\ UNCHANGED <<vpk, added>>
    IN  Returned(saveToFile(vpk, disk, absFilePath))

\* saveToFile(absFilePath, createParentDirs) where the parent directory may be
\* missing
SaveToFileAt(absFilePath, createParentDirs) ==
    LET Returned(r) ==
            /\ disk' = r.disk
            /\ last' = [Call("saveToFile", r.outcome = "threw", vpk) EXCEPT
                            !.path = absFilePath, !.outcome = r.outcome,
                            !.createParentDirs = createParentDirs]
            /\ history' = [history EXCEPT
                            !.written = IF r.outcome = "ok" THEN @ \cup {absFilePath}
                                        ELSE @ \ {absFilePath}]
            /\ UNCHANGED <<vpk, added>>
    IN  Returned(saveToFileAt(vpk, disk, absFilePath, createParentDirs))

VerifyFile(absFilePath) ==
    LET Returned(r) ==
            /\ last' = [Call("verifyFile", r.outcome = "threw", vpk) EXCEPT
                            !.path = absFilePath, !.outcome = r.outcome,
                            !.errors = r.errors]
            /\ UNCHANGED <<vpk, disk, added, history>>
    IN  Returned(verifyFile(disk, absFilePath))

IndexFromFile(absFilePath) ==
    LET Returned(r) ==
            /\ last' = [Call("indexFromFile", r.threw, vpk) EXCEPT
                            !.path = absFilePath,
                            !.outcome = IF r.threw THEN "threw" ELSE "ok",
                            !.index = r.retArr]
            /\ UNCHANGED <<vpk, disk, added, history>>
    IN  Returned(indexFromFile(disk, absFilePath))

\* vpk = Vpk.fromFile(absFilePath); a throw leaves vpk as it was
FromFile(absFilePath) ==
    LET Returned(r) ==
            /\ vpk' = IF r.threw THEN vpk ELSE r.vpk
            /\ last' = [Call("fromFile", r.threw, vpk) EXCEPT
                            !.path = absFilePath,
                            !.outcome = IF r.threw THEN "threw" ELSE "ok"]
            /\ history' = [history EXCEPT
                            !.loaded = IF r.threw THEN @ ELSE absFilePath = "/A"]
            /\ UNCHANGED <<disk, added>>
    IN  Returned(fromFile(disk, absFilePath))

\* something other than the library changes the byte at `position` of /A
Corrupt(position, value) ==
    /\ disk["/A"].exists
    /\ position < Len(disk["/A"].bytes)
    /\ disk["/A"].bytes[position + 1] # value
    /\ disk' = [disk EXCEPT !["/A"].bytes[position + 1] = value]
    /\ last' = Call("corrupt", FALSE, vpk)
    /\ history' = [history EXCEPT !.changedAt = position, !.before = disk["/A"].bytes]
    /\ UNCHANGED <<vpk, added>>

\* vpk = Vpk.fromDirectory(absDirPath); a throw leaves vpk as it was
FromDirectory(absDirPath, exists, items) ==
    LET r == fromDirectory(absDirPath, exists, items)
    IN  /\ vpk' = IF r.threw THEN vpk ELSE r.vpk
        /\ last' = [Call("fromDirectory", r.threw, vpk) EXCEPT
                        !.key = absDirPath, !.outcome = IF r.threw THEN "threw" ELSE "ok"]
        /\ history' = [history EXCEPT !.loaded = FALSE,
                                      !.listing = IF r.threw THEN @ ELSE items]
        /\ UNCHANGED <<disk, added>>

\* a call that never returns leaves nothing to run
Running == last.outcome # "hang"

(***************************************************************************)
(* SpecTree: the in-memory operations of a Vpk.                            *)
(***************************************************************************)
NextTree ==
    \/ \E version \in VersionInputs : SetVersion(version)
    \/ \E file \in TreeFiles : AddFile(file)
    \/ \E key \in LookupKeys : GetFile(key)
    \/ GetFiles
    \/ \E key \in LookupKeys : RemoveFile(key)

SpecTree == Init /\ [][NextTree]_vars

(***************************************************************************)
(* SpecSave: an archive is built in memory, saved to /A once, and the file *)
(* is then verified and indexed.                                           *)
(***************************************************************************)
Building == ~disk["/A"].exists

NextSave ==
    /\ Running
    /\ \/ \E version \in VersionInputs : Building /\ SetVersion(version)
       \/ \E file \in TreeFiles : Building /\ AddFile(file)
       \/ \E key \in LookupKeys : GetFile(key)
       \/ GetFiles
       \/ Building /\ SaveToFile("/A")
       \/ \E createParentDirs \in BOOLEAN :
             Building /\ ~disk["/n/C"].exists /\ SaveToFileAt("/n/C", createParentDirs)
       \/ VerifyFile("/A")
       \/ IndexFromFile("/A")

SpecSave == Init /\ [][NextSave]_vars

(***************************************************************************)
(* SpecFile: /A is an archive that saveToFile wrote.  One byte of it may   *)
(* be changed behind the library's back; it is verified and indexed; while *)
(* unchanged it is loaded with fromFile, re-versioned and saved to /B.     *)
(***************************************************************************)
RECURSIVE Build(_, _)
Build(v, files) ==
    IF files = <<>> THEN v ELSE Build(addFile(v, Head(files)).vpk, Tail(files))

\* the archives in memory that the sample files are saved from
SampleTrees ==
    { <<FileInPak(ExtT, PathRoot, NameA, SrcPath("/s1")),
        FileInPak(ExtM, PathD, NameB, SrcChunk("/s1", 1, 1))>>,
      <<FileInPak(ExtT, PathRoot, NameE, SrcChunk("/s1", 1, 1))>>,
      <<FileInPak(ExtT, PathD, NameA, SrcBuffer(<<1>>))>> }

SampleArchives ==
    { saveToFile(setVersion(Build(NewVpk, files), version).vpk, InitDisk, "/A").disk :
        files \in SampleTrees, version \in {Num(1), Num(2)} }

InitFile ==
    /\ vpk = NewVpk
    /\ disk \in SampleArchives
    /\ added = {}
    /\ last = Call("new", FALSE, NewVpk)
    /\ history = [NoHistory EXCEPT !.written = {"/A"}]

Unchanged == history.changedAt = -1

NextFile ==
    /\ Running
    /\ \/ \E position \in 0..(Len(disk["/A"].bytes) - 1) :
             /\ Unchanged /\ ~history.loaded
             /\ Corrupt(position, (disk["/A"].bytes[position + 1] + 1) % 256)
       \/ VerifyFile("/A")
       \/ \E absFilePath \in {"/A", "/B"} : IndexFromFile(absFilePath)
       \/ Unchanged /\ FromFile("/A")
       \/ \E version \in {Num(1), Num(2)} : history.loaded /\ SetVersion(version)
       \/ history.loaded /\ ~disk["/B"].exists /\ SaveToFile("/B")

SpecFile == InitFile /\ [][NextFile]_vars

(***************************************************************************)
(* SpecDir: archives are made from directories and looked into.            *)
(***************************************************************************)
DirD == <<100>>      \* "d"
DirE == <<101>>      \* "e"

DirFile(dir, name, path) == [dir |-> dir, name |-> name, path |-> path]

\* the directories tried: files in readdirSync order
Listings ==
    { <<DirFile(<<>>, NameA \o <<46>> \o ExtT, "/s1"),
        DirFile(<<DirD>>, NameB \o <<46>> \o ExtM, "/s2")>>,
      <<DirFile(<<DirD>>, NameB \o <<46>> \o ExtM, "/s2"),
        DirFile(<<>>, NameA \o <<46>> \o ExtT, "/s1")>>,
      <<DirFile(<<DirD, DirE>>, NameA \o <<46>> \o ExtT, "/s1"),
        DirFile(<<DirD>>, NameA \o <<46>> \o ExtT, "/s2")>>,
      <<DirFile(<<>>, NameA \o <<46>> \o NameB \o <<46>> \o ExtT, "/s1")>>,
      <<DirFile(<<>>, <<46>> \o ExtT, "/s1")>>,
      <<DirFile(<<>>, NameA \o <<46>> \o ExtT, "/s1"), DirFile(<<>>, NameB, "/s2")>>,
      <<>> }

\* "/r" and "/r/"
Roots == { <<47, 114>>, <<47, 114, 47>> }

DirKeys ==
    { <<ext, relPath, name>> :
        ext \in {ExtT, ExtM}, name \in {NameA, NameB},
        relPath \in { <<>>, DirD, DirD \o <<47>>, DirD \o <<47>> \o DirE,
                      DirD \o <<47>> \o DirE \o <<47>> } }

NextDir ==
    \/ \E absDirPath \in Roots, exists \in BOOLEAN, items \in Listings :
            FromDirectory(absDirPath, exists, items)
    \/ \E key \in DirKeys : GetFile(key)
    \/ GetFiles

SpecDir == Init /\ [][NextDir]_vars

(***************************************************************************)
(* Parsing files that something other than the library made: the sample    *)
(* archives with header fields overwritten, with one byte changed, or cut  *)
(* short.                                                                  *)
(***************************************************************************)
\* the magic, the version and (at 20, where version 2 keeps it) the
\* hashesLength a header is given; <<>> leaves the field as it is
MagicInputs == {<<>>, <<MAGIC + 1>>}

VersionFieldInputs == {<<>>, <<0>>, <<1>>, <<2>>, <<3>>, <<RESPAWN>>}

HashesLengthInputs == {<<>>, <<47>>}

\* what is added to the tree length of a header
TreeLengthSteps == {-1, 1}

SetField(bytes, position, value) ==
    IF value = <<>> THEN bytes ELSE WriteAt(bytes, position, U32LE(value[1]))

HeaderEdits(bytes) ==
    { SetField(SetField(SetField(bytes, 0, magic), 4, version), 20, hashesLength) :
        magic \in MagicInputs, version \in VersionFieldInputs,
        hashesLength \in HashesLengthInputs }

TreeLengthEdits(bytes) ==
    { WriteAt(bytes, 8, U32LE(ReadU32LE(bytes, 8) + step)) : step \in TreeLengthSteps }

ByteEdits(bytes) ==
    { [bytes EXCEPT ![position] = (@ + 1) % 256] : position \in 1..Len(bytes) }

Truncations(bytes) == { SubSeq(bytes, 1, n) : n \in 0..(Len(bytes) - 1) }

ForeignFiles(bytes) ==
    HeaderEdits(bytes) \cup TreeLengthEdits(bytes) \cup ByteEdits(bytes)
        \cup Truncations(bytes)

InitParse ==
    /\ vpk = NewVpk
    /\ \E d \in SampleArchives : \E bytes \in ForeignFiles(d["/A"].bytes) :
            disk = [d EXCEPT !["/A"].bytes = bytes]
    /\ added = {}
    /\ last = Call("new", FALSE, NewVpk)
    /\ history = NoHistory

NextParse ==
    /\ last.op = "new"
    /\ \/ VerifyFile("/A")
       \/ IndexFromFile("/A")
       \/ FromFile("/A")

SpecParse == InitParse /\ [][NextParse]_vars

(***************************************************************************)
(* SpecReopen: an archive is built in memory, with names inside and        *)
(* outside ASCII or with no entry at all, saved to /A as version 1 or 2,   *)
(* and the file is verified, indexed, loaded with fromFile and saved again *)
(* over itself.                                                            *)
(***************************************************************************)
PathE == <<233, 47>>       \* "é/"

EncodedFiles ==
    { FileInPak(ExtT, PathRoot, NameA, SrcPath("/s1")),
      FileInPak(ExtT, PathRoot, NameE, SrcPath("/s2")),
      FileInPak(ExtM, PathE, NameB, SrcChunk("/s1", 1, 1)),
      FileInPak(ExtM, PathD, NameB, SrcBuffer(<<>>)) }

NextReopen ==
    /\ Running
    /\ \/ \E version \in {Num(1), Num(2)} : Building /\ SetVersion(version)
       \/ \E file \in EncodedFiles : Building /\ AddFile(file)
       \/ Building /\ SaveToFile("/A")
       \/ VerifyFile("/A")
       \/ IndexFromFile("/A")
       \/ ~Building /\ FromFile("/A")
       \/ history.loaded /\ SaveToFile("/A")

SpecReopen == Init /\ [][NextReopen]_vars

(***************************************************************************)
(* SpecOrder: the in-memory operations on entries whose extension or path  *)
(* is written with digits only ("a.1", a directory "7"), next to entries   *)
(* with other names.                                                       *)
(***************************************************************************)
Ext1 == <<49>>             \* "1"
Path7 == <<55>>            \* "7"

OrderFiles ==
    { FileInPak(ExtT, PathRoot, NameA, SrcPath("/s1")),
      FileInPak(Ext1, PathRoot, NameA, SrcPath("/s2")),
      FileInPak(ExtT, PathD, NameB, SrcBuffer(<<1>>)),
      FileInPak(ExtT, Path7, NameA, SrcChunk("/s1", 0, 2)) }

NextOrder ==
    \/ \E file \in OrderFiles : AddFile(file)
    \/ \E file \in OrderFiles : RemoveFile(KeyOf(file))
    \/ GetFiles

SpecOrder == Init /\ [][NextOrder]_vars

(***************************************************************************)
(* SpecWalk: the walk of the tree in getFileIndexTree, one pass of a loop  *)
(* at a time, on the files of SpecParse.  `depth` is the loop the walk is  *)
(* in: 0 for the extensions, 1 for the paths of an extension, 2 for the    *)
(* names of a path, -1 once the outer loop has ended; `pos` is pakPos.     *)
(***************************************************************************)
\* a walk whose loops go on when the string read is empty
ListNeverEnds(depth) == depth

\* if (name === '') break: the loop around this one goes on
ListEnded(depth) == depth - 1

\* indexFromFileInternal gets as far as the call of getFileIndexTree
HeaderRead(bytes) ==
    /\ HeaderCheck(ReadInto(Zeros(12), bytes, 0)) = ""
    /\ ReadU32LE(ReadInto(Zeros(12), bytes, 0), 4) = 2 =>
            ReadU32LE(ReadInto(Zeros(16), bytes, 12), 8) = 48

\* the headerLength and the maxIndex getFileIndexTree is called with
WalkStart(bytes) ==
    IF ReadU32LE(ReadInto(Zeros(12), bytes, 0), 4) = 2 THEN 28 ELSE 12

WalkMax(bytes) == ReadU32LE(ReadInto(Zeros(12), bytes, 0), 8) + WalkStart(bytes)

\* one pass of the loop the walk is in
WalkPass(bytes, maxIndex, pos, depth) ==
    LET Read(r) ==
            IF r.result = <<>>
            THEN [pos |-> pos + r.bytesRead, depth |-> ListEnded(depth), threw |-> FALSE]
            ELSE IF depth < 2
            THEN [pos |-> pos + r.bytesRead, depth |-> depth + 1, threw |-> FALSE]
            ELSE [pos |-> pos + r.bytesRead + Len(ReadAt(bytes, pos + r.bytesRead, 18)),
                  depth |-> 2,
                  threw |-> SuffixWrong(ReadInto(Zeros(18), bytes, pos + r.bytesRead))]
    IN  IF depth = 0 /\ pos > maxIndex
        THEN [pos |-> pos, depth |-> depth, threw |-> TRUE]
        ELSE Read(readNextStringFromFile(bytes, pos))

GetFileIndexTree(absFilePath) ==
    /\ last.op = "new"
    /\ disk[absFilePath].exists
    /\ HeaderRead(disk[absFilePath].bytes)
    /\ last' = [Call("getFileIndexTree", FALSE, vpk) EXCEPT
                    !.path = absFilePath, !.outcome = "walking",
                    !.pos = WalkStart(disk[absFilePath].bytes)]
    /\ UNCHANGED <<vpk, disk, added, history>>

GetFileIndexTreePass ==
    LET Passed(w) ==
            /\ last' = [last EXCEPT !.pos = w.pos, !.depth = w.depth, !.threw = w.threw,
                                    !.outcome = IF w.threw THEN "threw"
                                                ELSE IF w.depth < 0 THEN "ok"
                                                ELSE "walking"]
            /\ UNCHANGED <<vpk, disk, added, history>>
    IN  /\ last.op = "getFileIndexTree"
        /\ last.outcome = "walking"
        /\ Passed(WalkPass(disk[last.path].bytes, WalkMax(disk[last.path].bytes),
                            last.pos, last.depth))

NextWalk == GetFileIndexTree("/A") \/ GetFileIndexTreePass

\* a call that has started goes on: nothing else runs in the process
SpecWalk == InitParse /\ [][NextWalk]_vars /\ WF_vars(GetFileIndexTreePass)

(***************************************************************************)
(* File handles.  A call is the list of its steps on handles, in program   *)
(* order: fs.openSync, a read, write or test that may throw, fs.closeSync, *)
(* the declaration of the variable that holds a descriptor, and try        *)
(* blocks whose catch closes the descriptors that `if (fd)` lets through   *)
(* and throws again.  `st` is the run so far: the handles that are open,   *)
(* the descriptor each variable holds (NoFd when undefined), the number of *)
(* steps tried, and, as given, the step that fails (0: none), the lowest   *)
(* descriptor that is free when the call starts, and whether a closeSync   *)
(* that fails has released its descriptor.                                 *)
(***************************************************************************)
HandleNames == {"pak", "source", "target"}

NoFd == -1

Step(k, h) == [k |-> k, h |-> h, body |-> <<>>, handlers |-> <<>>]

Try(body, handlers) == [k |-> "try", h |-> "", body |-> body, handlers |-> handlers]

IoStart(failAt, firstFd, released) ==
    [open |-> {}, fd |-> [h \in HandleNames |-> NoFd], count |-> 0, threw |-> FALSE,
     failAt |-> failAt, firstFd |-> firstFd, released |-> released]

\* the descriptor fs.openSync returns: the lowest one that is free
FreeFds(st) == ({st.firstFd} \cup 3..6) \ { st.fd[h] : h \in st.open }

LowestFd(st) == CHOOSE n \in FreeFds(st) : \A m \in FreeFds(st) : n <= m

Attempt(st) == [st EXCEPT !.count = @ + 1]

Fails(st) == st.count + 1 = st.failAt

\* fd = fs.openSync(...)
OpenStep(st, h) ==
    IF Fails(st) THEN [Attempt(st) EXCEPT !.threw = TRUE]
    ELSE [Attempt(st) EXCEPT !.open = @ \cup {h}, !.fd[h] = LowestFd(st)]

\* fs.readSync, fs.writeSync, or a test that throws an Error
IoStep(st) == [Attempt(st) EXCEPT !.threw = Fails(st)]

\* fs.closeSync(fd): a descriptor that is not open gives EBADF
CloseStep(st, h) ==
    IF h \notin st.open THEN [Attempt(st) EXCEPT !.threw = TRUE]
    ELSE IF Fails(st)
    THEN [Attempt(st) EXCEPT !.threw = TRUE,
                             !.open = IF st.released THEN @ \ {h} ELSE @]
    ELSE [Attempt(st) EXCEPT !.open = @ \ {h}]

\* let fd: number | undefined = undefined
LetStep(st, h) == [st EXCEPT !.fd[h] = NoFd]

\* catch (e) { if (fd) fs.closeSync(fd); ...; throw e }
RECURSIVE Catch(_, _)
Catch(st, handlers) ==
    IF handlers = <<>> \/ st.threw THEN [st EXCEPT !.threw = TRUE]
    ELSE Catch(IF st.fd[Head(handlers)] \notin {NoFd, 0}
               THEN CloseStep(st, Head(handlers)) ELSE st,
               Tail(handlers))

TryEnd(st, handlers) ==
    IF st.threw THEN Catch([st EXCEPT !.threw = FALSE], handlers) ELSE st

RECURSIVE Run(_, _)
Run(steps, st) ==
    IF steps = <<>> \/ st.threw THEN st
    ELSE Run(Tail(steps),
             CASE Head(steps).k = "open"  -> OpenStep(st, Head(steps).h)
               [] Head(steps).k = "io"    -> IoStep(st)
               [] Head(steps).k = "close" -> CloseStep(st, Head(steps).h)
               [] Head(steps).k = "let"   -> LetStep(st, Head(steps).h)
               [] OTHER -> TryEnd(Run(Head(steps).body, st), Head(steps).handlers))

\* indexFromFileInternal: the header, the version-2 header and checksums, the tree
IndexSteps(v) ==
    <<Step("let", "pak"),
      Try(<<Step("open", "pak"), Step("io", "pak"), Step("io", "")>>
            \o (IF v.version = Num(2)
                THEN <<Step("io", "pak"), Step("io", ""), Step("io", "pak")>> ELSE <<>>)
            \o <<Step("io", "pak"), Step("close", "pak")>>,
          <<"pak">>)>>

\* validateReadFileOrDirectoryPath
ValidateStep == Step("io", "")

indexFromFileSteps(v) == <<ValidateStep>> \o IndexSteps(v)

\* fromFile: the index, then setVersion and an addFile for every leaf
fromFileSteps(v) ==
    <<ValidateStep>> \o IndexSteps(v)
        \o [i \in 1..(1 + Len(getFiles(v))) |-> Step("io", "")]

\* the check of one leaf's CRC-32 in verifyFile
VerifyLeafSteps ==
    <<Step("let", "pak"),
      Try(<<Step("open", "pak"), Step("io", "pak"), Step("close", "pak")>>, <<"pak">>)>>

verifyFileSteps(v) ==
    <<ValidateStep>> \o IndexSteps(v)
        \o Flatten([i \in 1..Len(getFiles(v)) |-> VerifyLeafSteps])
        \o (IF v.version = Num(2)
            THEN <<Step("let", "pak"),
                   Try(<<Step("open", "pak"), Step("io", "pak"), Step("io", "pak"),
                         Step("close", "pak")>>, <<"pak">>)>>
            ELSE <<>>)

\* one leaf in saveToFile: its name, its data from a Buffer or through a
\* handle on the source, its metadata record
SaveLeafSteps(dataSource) ==
    <<Step("io", "pak")>>
        \o (IF dataSource.kind = "buffer" THEN <<Step("io", "pak")>>
            ELSE <<Step("let", "source"),
                   Try(<<Step("open", "source"), Step("io", "source"), Step("io", "pak"),
                         Step("close", "source")>>, <<"source">>)>>)
        \o <<Step("io", "pak")>>

saveToFileSteps(v) ==
    <<Step("io", ""), Step("let", "pak"),
      Try(<<Step("open", "pak"), Step("io", "pak")>>
            \o Flatten([i \in 1..Len(getFiles(v)) |->
                            SaveLeafSteps(getFiles(v)[i].dataSource)])
            \o <<Step("io", "pak")>>
            \o (IF v.version = Num(2)
                THEN <<Step("io", "pak"), Step("io", "pak"), Step("io", "pak")>> ELSE <<>>)
            \o <<Step("close", "pak")>>,
          <<"pak">>)>>

\* writeFileFromFileChunk: the helper that extracts a region of a file
writeFileFromFileChunkSteps ==
    <<Step("io", ""), Step("let", "target"), Step("let", "source"),
      Try(<<Step("open", "target"), Step("open", "source"), Step("io", "source"),
            Step("io", "target"), Step("close", "target"), Step("close", "source")>>,
          <<"target", "source">>)>>

\* the step that fails is one of the steps of the call, or none
MaxFailAt == 16

FirstFds == {0, 3}

\* a call of `op`, whose steps are `steps`, with the failure given
HandleCall(op, steps, failAt, firstFd, released) ==
    LET Returned(st) ==
            /\ last' = [Call(op, st.threw, vpk) EXCEPT
                            !.outcome = IF st.threw THEN "threw" ELSE "ok",
                            !.io = <<failAt, firstFd, released>>,
                            !.open = st.open]
            /\ UNCHANGED <<vpk, disk, added, history>>
    IN  Returned(Run(steps, IoStart(failAt, firstFd, released)))

(***************************************************************************)
(* SpecHandles: one call on an archive of the samples, in which one step   *)
(* may fail.                                                               *)
(***************************************************************************)
InitHandles ==
    /\ \E files \in SampleTrees, version \in {Num(1), Num(2)} :
            vpk = setVersion(Build(NewVpk, files), version).vpk
    /\ disk = InitDisk
    /\ added = {}
    /\ last = Call("new", FALSE, NewVpk)
    /\ history = NoHistory

NextHandles ==
    /\ last.op = "new"
    /\ \E failAt \in 0..MaxFailAt, firstFd \in FirstFds, released \in BOOLEAN :
          \/ HandleCall("saveToFile", saveToFileSteps(vpk), failAt, firstFd, released)
          \/ HandleCall("verifyFile", verifyFileSteps(vpk), failAt, firstFd, released)
          \/ HandleCall("indexFromFile", indexFromFileSteps(vpk), failAt, firstFd, released)
          \/ HandleCall("fromFile", fromFileSteps(vpk), failAt, firstFd, released)
          \/ HandleCall("writeFileFromFileChunk", writeFileFromFileChunkSteps,
                        failAt, firstFd, released)

SpecHandles == InitHandles /\ [][NextHandles]_vars

(***************************************************************************)
(* What the claims speak of.                                               *)
(***************************************************************************)
\* the (extension, stored relPath, name) of every leaf of a tree
EntryKeys(v) ==
    UNION { UNION { { <<e.k, p.k, p.v[n].fileName>> : n \in 1..Len(p.v) } :
                    p \in Range(e.v) } :
            e \in Range(v.tree) }

\* C3: addFile throws exactly when an entry with the same extension, the same
\* normalized relPath and the same extensionless name is already in the archive;
\* so the same name under another relPath or another extension is accepted.
C3_DuplicateRejected ==
    last.op = "addFile" =>
        (last.threw <=> NormKey(KeyOf(last.file)) \in EntryKeys(last.pre))

\* a duplicate was rejected whose relPath differs from the stored one as written
C3_Witness ==
    /\ last.op = "addFile"
    /\ last.threw
    /\ last.file.relPath = Sentinel
    /\ \E f \in added : f.relPath = PathRoot /\ NormKey(KeyOf(f)) = NormKey(KeyOf(last.file))

\* C4: the version is always 1 or 2 and the header length follows it (12, 28);
\* setVersion(1) and setVersion(2) succeed and getVersion returns the value set;
\* setVersion with any other value throws and changes nothing.
C4_VersionValid ==
    /\ vpk.version \in {Num(1), Num(2)}
    /\ vpk.headerLength = (IF vpk.version = Num(1) THEN 12 ELSE 28)
    /\ last.op = "setVersion" =>
        /\ last.threw <=> last.version \notin {Num(1), Num(2)}
        /\ last.threw => vpk = last.pre
        /\ ~last.threw => getVersion(vpk) = last.version

\* C5 as stated: an added entry is returned by getFile with the relPath it was
\* added with; a key that is not in the archive gives null.
C5_GetFileReturnsAdded ==
    /\ \A e \in added : getFile(vpk, e.extension, e.relPath, e.extlessFileName) = e
    /\ \A key \in LookupKeys :
         NormKey(key) \notin EntryKeys(vpk) => getFile(vpk, key[1], key[2], key[3]) = Null

\* C5 amended: an added entry is returned by getFile with the same extension, the
\* same name, the same data source, and the relPath it was added with trimmed
\* of leading and trailing white space; a key that is not in the archive gives
\* null.
C5_GetFileReturnsTrimmed ==
    /\ \A e \in added :
         getFile(vpk, e.extension, e.relPath, e.extlessFileName)
            = [e EXCEPT !.relPath = Trim(e.relPath)]
    /\ \A key \in LookupKeys :
         NormKey(key) \notin EntryKeys(vpk) => getFile(vpk, key[1], key[2], key[3]) = Null
    /\ last.op = "getFile" =>
         /\ ~last.threw
         /\ last.ret = getFile(last.pre, last.key[1], last.key[2], last.key[3])

\* getFile found the second entry of a bucket, added with an untrimmed relPath,
\* after another operation
C5_Witness ==
    /\ last.op = "getFile"
    /\ last.ret # Null
    /\ last.key[2] = PathSpD
    /\ last.ret.relPath = PathD
    /\ Cardinality(added) = 2

\* C6: removeFile removes exactly the entry of its key: getFile then gives null
\* for that key and what it gave before for every other key; with a key that is
\* not in the archive it changes nothing that getFiles returns, and never throws.
C6_RemoveExactlyOne ==
    last.op = "removeFile" =>
        /\ ~last.threw
        /\ getFile(vpk, last.key[1], last.key[2], last.key[3]) = Null
        /\ \A key \in LookupKeys :
             NormKey(key) # NormKey(last.key) =>
                getFile(vpk, key[1], key[2], key[3])
                    = getFile(last.pre, key[1], key[2], key[3])
        /\ NormKey(last.key) \notin EntryKeys(last.pre) => getFiles(vpk) = getFiles(last.pre)
        /\ Len(getFiles(vpk)) =
             Len(getFiles(last.pre))
                - (IF NormKey(last.key) \in EntryKeys(last.pre) THEN 1 ELSE 0)

\* the first of two entries of one bucket was removed and the second stays
C6_Witness ==
    /\ last.op = "removeFile"
    /\ getFile(last.pre, last.key[1], last.key[2], last.key[3]) # Null
    /\ Len(getFiles(last.pre)) = 2
    /\ Len(getFiles(vpk)) = 1
    /\ last.key[3] = NameA
    /\ getFile(vpk, ExtT, PathRoot, NameB) # Null

\* C1: verifyFile on a file that saveToFile has written, as version 1 or as
\* version 2, from an archive built by addFile calls (path, region and buffer
\* sources) returns an empty list.
C1_SavedVerifies ==
    (/\ last.op = "verifyFile"
     /\ last.path \in history.written
     /\ added # {}
     /\ vpk.version \in {Num(1), Num(2)}) =>
        (last.outcome = "ok" /\ last.errors = <<>>)

\* s begins with p
StartsWith(s, p) == Len(s) >= Len(p) /\ SubSeq(s, 1, Len(p)) = p

\* the entries added with relPath ""
RootAdded == { f \in added : f.relPath = <<>> }

\* the (extension, relPath, name) of every leaf of the index tree of a file
FileKeys(d, absFilePath) ==
    LET entries == IndexLeaves(indexFromFileInternal(d, absFilePath).fileIndexTree)
    IN  { <<entries[i].ext, entries[i].relPath, entries[i].leaf.fileName>> :
            i \in 1..Len(entries) }

\* C7: an entry added with relPath "" is found by getFile with relPath "", is
\* stored and serialized under the single-space sentinel, and no public result
\* shows the sentinel: not the relPath of what getFile and getFiles return, not
\* the relPath of the IndexEntry values of indexFromFile, not the entry names of
\* the verifyFile messages.
C7_SentinelNeverLeaks ==
    /\ \A f \in RootAdded :
          /\ <<f.extension, Sentinel, f.extlessFileName>> \in EntryKeys(vpk)
          /\ (last.op = "getFile" /\ last.key = KeyOf(f)) =>
                (last.ret # Null /\ last.ret.relPath = <<>>)
          /\ (last.op = "saveToFile" /\ last.outcome = "ok") =>
                <<f.extension, Sentinel, f.extlessFileName>> \in FileKeys(disk, last.path)
          /\ (last.op = "indexFromFile" /\ last.outcome = "ok") =>
                \E i \in 1..Len(last.index) :
                    last.index[i].relPath = f.extlessFileName \o <<46>> \o f.extension
    /\ last.op = "getFile" /\ last.ret # Null => last.ret.relPath # Sentinel
    /\ last.op = "getFiles" => \A i \in 1..Len(last.list) : last.list[i].relPath # Sentinel
    /\ last.op = "indexFromFile" =>
          \A i \in 1..Len(last.index) : ~StartsWith(last.index[i].relPath, Sentinel \o <<47>>)
    /\ last.op = "verifyFile" =>
          \A i \in 1..Len(last.errors) : ~StartsWith(last.errors[i].name, Sentinel \o <<47>>)

\* a saved archive of two entries, one of them added with relPath "", was indexed
C7_Witness ==
    /\ RootAdded # {}
    /\ last.op = "indexFromFile"
    /\ last.outcome = "ok"
    /\ Len(last.index) = 2

\* verifyFile returns an empty list on the file
VerifiesEmpty(d, absFilePath) ==
    verifyFile(d, absFilePath) = [outcome |-> "ok", errors |-> <<>>]

\* two indexes list as many entries, with the same crc32 and fileLength in turn
SameIndex(x, y) ==
    /\ Len(x) = Len(y)
    /\ \A i \in 1..Len(x) :
          /\ x[i].metadata.crc32 = y[i].metadata.crc32
          /\ x[i].metadata.fileLength = y[i].metadata.fileLength

\* C2: for a file /A on which verifyFile is empty, fromFile(/A), then possibly
\* setVersion(1) or setVersion(2), then saveToFile(/B) gives a file /B whose
\* index has as many entries as that of /A, in the same order, with the same
\* crc32 and the same fileLength each.
C2_RoundTripKeepsIndex ==
    VerifiesEmpty(disk, "/A") =>
        /\ (last.op = "fromFile" /\ last.path = "/A") => ~last.threw
        /\ (last.op = "saveToFile" /\ last.path = "/B" /\ history.loaded) =>
                last.outcome = "ok"
        /\ (last.op = "indexFromFile" /\ last.path = "/B" /\ history.resaved) =>
                /\ last.outcome = "ok"
                /\ SameIndex(last.index, indexFromFile(disk, "/A").retArr)

\* the entries of the index of the file before the change whose data region
\* holds the changed byte
EntriesChanged ==
    LET before == [disk EXCEPT !["/A"].bytes = history.before]
        entries == IndexLeaves(indexFromFileInternal(before, "/A").fileIndexTree)
    IN  SelectSeq(entries,
                  LAMBDA e : /\ e.leaf.metadata.archiveOffset <= history.changedAt
                             /\ history.changedAt < e.leaf.metadata.archiveOffset
                                                        + e.leaf.metadata.fileLength)

\* C9: a version-1 archive verifies empty; one byte inside the data region of
\* exactly one entry is changed; verifyFile then returns exactly one message, a
\* CRC32 mismatch that names that entry.
C9_OneByteOneMessage ==
    (/\ last.op = "verifyFile"
     /\ ~Unchanged
     /\ ReadU32LE(history.before, 4) = 1
     /\ VerifiesEmpty([disk EXCEPT !["/A"].bytes = history.before], "/A")
     /\ Len(EntriesChanged) = 1) =>
        /\ last.outcome = "ok"
        /\ Len(last.errors) = 1
        /\ last.errors[1].kind = "CRC32 mismatch"
        /\ last.errors[1].name = EntryName(EntriesChanged[1])

\* the entries of the index of a file whose bytes do not have the stored CRC-32
CrcMismatches(d, absFilePath) ==
    LET entries == IndexLeaves(indexFromFileInternal(d, absFilePath).fileIndexTree)
    IN  { i \in 1..Len(entries) :
            crc32(CrcZero, ReadAt(d[absFilePath].bytes,
                                  entries[i].leaf.metadata.archiveOffset,
                                  entries[i].leaf.metadata.fileLength))
                # entries[i].leaf.metadata.crc32 }

\* the trailer checksums of a version-2 file that differ from the ones computed
\* over the header, the tree and the data
TrailerMismatches(d, absFilePath) ==
    LET r == indexFromFileInternal(d, absFilePath)
        m == r.vpkV2Metadata
        bytes == d[absFilePath].bytes
        tree == ReadAt(bytes, 28, r.vpkTreeLength)
        data == ReadAt(bytes, 28 + r.vpkTreeLength, m.embedChunkLength)
        whole == ReadInto(Zeros(28), bytes, 0) \o tree \o data \o Md5(tree) \o Md5(<<>>)
    IN  IF ~m.defined THEN {}
        ELSE { k \in {"file", "tree", "chunk"} :
                 \/ k = "file" /\ ToHex(Md5(whole)) # m.fileChecksum
                 \/ k = "tree" /\ ToHex(Md5(tree)) # m.treeChecksum
                 \/ k = "chunk" /\ ToHex(Md5(<<>>)) # m.chunkHashesChecksum }

\* C10: verifyFile does not stop at a mismatch: it returns one message for each
\* entry whose CRC-32 differs and one for each trailer checksum that differs, and
\* a whole-file checksum that differs has a message of its own.
C10_OneMessagePerFailedCheck ==
    (last.op = "verifyFile" /\ ~last.threw) =>
        /\ last.outcome = "ok"
        /\ Len(last.errors) = Cardinality(CrcMismatches(disk, last.path))
                                + Cardinality(TrailerMismatches(disk, last.path))
        /\ "file" \in TrailerMismatches(disk, last.path) =>
              \E i \in 1..Len(last.errors) :
                  last.errors[i].kind = "Pak file checksum mismatch"

\* the key a file of a directory is to be found by: its extension, the names of
\* the directories leading to it, each followed by a slash, and its name
ListedKey(it) ==
    <<FileExt(it.name), Flatten([i \in 1..Len(it.dir) |-> it.dir[i] \o <<47>>]),
      ExtlessFileName(it.name)>>

\* C8: fromDirectory(root) makes an archive with exactly one entry for each file
\* under root; a file in root is found by getFile with relPath '', a file in a
\* subdirectory d by getFile(ext, 'd/', name).
C8_DirectoryEntriesResolve ==
    /\ (last.op = "fromDirectory" /\ ~last.threw) =>
            /\ vpk.fileCount = Len(history.listing)
            /\ Cardinality(EntryKeys(vpk)) = Len(history.listing)
    /\ last.op = "getFile" =>
            \A i \in 1..Len(history.listing) :
                last.key = ListedKey(history.listing[i]) => last.ret # Null
(***************************************************************************)
(* C11: saveToFile with createParentDirs = false throws when the parent    *)
(* directory of the target is missing, and then makes neither the          *)
(* directory nor the file; with createParentDirs = true it makes the       *)
(* directory and writes the file.                                          *)
(***************************************************************************)
C11_ParentDirs ==
    [][(last'.op = "saveToFile" /\ ~DirExists(disk, dirname(last'.path))) =>
          IF last'.createParentDirs
          THEN /\ DirExists(disk', dirname(last'.path))
               /\ disk'[last'.path].exists
               /\ last'.outcome = "ok" =>
                     disk'[last'.path].bytes = SaveBytes(vpk, disk', last'.path).bytes
          ELSE /\ last'.threw
               /\ disk' = disk]_vars

C11_Witness ==
    /\ last.op = "saveToFile" /\ last.path = "/n/C"
    /\ ~last.createParentDirs /\ last.threw
    /\ ~disk["/n"].exists /\ ~disk["/n/C"].exists
    /\ vpk.fileCount > 0

(***************************************************************************)
(* C12: fromFile, indexFromFile and verifyFile apply the header checks in  *)
(* a fixed order and fail at the first that fails, with no index: a wrong  *)
(* magic whatever the other fields are; otherwise the Respawn version;     *)
(* otherwise, for version 2, a hashesLength other than 48.                 *)
(***************************************************************************)
ParseOps == {"fromFile", "indexFromFile", "verifyFile"}

\* the 32-bit field at `position` of the file holds `value` (bytes the file
\* lacks read as 0)
FieldIs(bytes, position, value) ==
    SubSeq(ReadInto(Zeros(position + 4), bytes, 0), position + 1, position + 4)
        = U32LE(value)

\* the last call threw `msg` and gave its caller nothing
Rejected(msg) ==
    /\ last.threw /\ last.outcome = "threw"
    /\ last.index = <<>> /\ last.errors = <<>> /\ vpk = last.pre
    /\ indexFromFileInternal(disk, last.path).err = msg

C12_HeaderChecksInOrder ==
    (last.op \in ParseOps /\ disk[last.path].exists) =>
        LET bytes == disk[last.path].bytes
        IN  /\ ~FieldIs(bytes, 0, MAGIC) => Rejected("File missing header magic")
            /\ (FieldIs(bytes, 0, MAGIC) /\ FieldIs(bytes, 4, RESPAWN)) =>
                    Rejected("Respawn uses a customized VPK format")
            /\ (FieldIs(bytes, 0, MAGIC) /\ FieldIs(bytes, 4, 2)
                    /\ ~FieldIs(bytes, 20, 48)) =>
                    Rejected("Header hashes length mismatch")

C12_Witness ==
    /\ last.op = "verifyFile" /\ last.threw
    /\ ~FieldIs(disk[last.path].bytes, 0, MAGIC)
    /\ FieldIs(disk[last.path].bytes, 4, RESPAWN)
    /\ ~FieldIs(disk[last.path].bytes, 20, 48)

(***************************************************************************)
(* C13: a file with the right magic whose version field is neither 1 nor 2 *)
(* (nor the Respawn value) makes each of fromFile, indexFromFile and       *)
(* verifyFile throw.                                                       *)
(***************************************************************************)
C13_OtherVersionsRejected ==
    (/\ last.op \in ParseOps /\ disk[last.path].exists
     /\ FieldIs(disk[last.path].bytes, 0, MAGIC)
     /\ ~FieldIs(disk[last.path].bytes, 4, 1)
     /\ ~FieldIs(disk[last.path].bytes, 4, 2)
     /\ ~FieldIs(disk[last.path].bytes, 4, RESPAWN))
        => last.threw

(***************************************************************************)
(* The serialized tree as the format lays it out: extensions, each with    *)
(* its paths, each with its names, every name followed by a record of 18   *)
(* bytes; an empty string ends a list.  TreeWalk gives the positions of    *)
(* the records in file order, up to the first one whose suffix is not      *)
(* 0xffff, and the position after the last byte of the tree.               *)
(***************************************************************************)
RECURSIVE NulAt(_, _)
NulAt(bytes, pos) ==
    IF pos >= Len(bytes) \/ bytes[pos + 1] = 0 THEN pos ELSE NulAt(bytes, pos + 1)

\* the 18 bytes of the record at pos, with 0 for the bytes the file lacks
RecordAt(bytes, pos) == ReadInto(Zeros(18), bytes, pos)

RECURSIVE TreeWalk(_, _, _, _)
TreeWalk(bytes, pos, depth, records) ==
    LET nul   == NulAt(bytes, pos)
        after == IF nul < Len(bytes) THEN nul + 1 ELSE nul
    IN  IF nul = pos
        THEN IF depth = 0 THEN [records |-> records, end |-> after, whole |-> TRUE]
             ELSE TreeWalk(bytes, after, depth - 1, records)
        ELSE IF depth < 2 THEN TreeWalk(bytes, after, depth + 1, records)
        ELSE IF ReadU16LE(RecordAt(bytes, after), 16) # 65535
        THEN [records |-> Append(records, after), end |-> after, whole |-> FALSE]
        ELSE TreeWalk(bytes, after + 18, 2, Append(records, after))

\* the header checks pass: the magic, the version, and hashesLength for version 2
HeaderPasses(bytes) ==
    /\ FieldIs(bytes, 0, MAGIC) /\ ~FieldIs(bytes, 4, RESPAWN)
    /\ FieldIs(bytes, 4, 2) => FieldIs(bytes, 20, 48)

HeaderLengthOf(bytes) == IF FieldIs(bytes, 4, 2) THEN 28 ELSE 12

TreeOf(bytes) == TreeWalk(bytes, HeaderLengthOf(bytes), 0, <<>>)

(***************************************************************************)
(* C14: when a record reached in the walk of the tree has a suffix other   *)
(* than 0xffff (a record cut short by the end of the file included),       *)
(* fromFile, indexFromFile and verifyFile throw and return nothing.        *)
(***************************************************************************)
C14_WrongSuffixRejected ==
    (/\ last.op \in ParseOps /\ disk[last.path].exists
     /\ HeaderPasses(disk[last.path].bytes)
     /\ ~TreeOf(disk[last.path].bytes).whole)
        => /\ last.threw /\ last.outcome = "threw"
           /\ last.index = <<>> /\ last.errors = <<>> /\ vpk = last.pre

\* a second record is cut short by the end of the file
C14_Witness ==
    /\ last.op = "indexFromFile" /\ last.threw
    /\ HeaderPasses(disk[last.path].bytes)
    /\ LET tree == TreeOf(disk[last.path].bytes)
       IN  /\ ~tree.whole /\ Len(tree.records) = 2
           /\ tree.end < Len(disk[last.path].bytes)
           /\ tree.end + 18 > Len(disk[last.path].bytes)

(***************************************************************************)
(* C15: the parser reads nothing of the tree at or beyond header length +  *)
(* tree length without failing: when the tree does not end within the tree *)
(* length the header declares, fromFile, indexFromFile and verifyFile      *)
(* throw.                                                                  *)
(***************************************************************************)
\* the tree length the header declares
TreeLengthOf(bytes) == ReadU32LE(ReadInto(Zeros(12), bytes, 0), 8)

C15_TreeStaysInBounds ==
    (/\ last.op \in ParseOps /\ disk[last.path].exists
     /\ HeaderPasses(disk[last.path].bytes)
     /\ TreeOf(disk[last.path].bytes).end
            > HeaderLengthOf(disk[last.path].bytes) + TreeLengthOf(disk[last.path].bytes))
        => last.threw

(***************************************************************************)
(* C16: for every entry whose record holds the archive index 0x7fff, the   *)
(* archiveOffset indexFromFile returns, and the offset of the region       *)
(* fromFile gives the entry, is the archive offset of the record plus the  *)
(* tree length plus the header length.                                     *)
(***************************************************************************)
\* the archive offset of the i-th record plus the tree length and the header length
AbsoluteOffset(bytes, i) ==
    ReadU32LE(RecordAt(bytes, TreeOf(bytes).records[i]), 8)
        + TreeLengthOf(bytes) + HeaderLengthOf(bytes)

InThisFile(bytes, i) == ReadU16LE(RecordAt(bytes, TreeOf(bytes).records[i]), 6) = 32767

C17_OffsetIsRelative ==
    (last.op = "indexFromFile" /\ ~last.threw /\ last.path \in history.written) =>
        LET bytes == disk[last.path].bytes
        IN  /\ \A i \in 1..Len(last.index) :
                    last.index[i].metadata.archiveOffset
                        = ReadU32LE(RecordAt(bytes, TreeOf(bytes).records[i]), 8)
            /\ last.index # <<>> => last.index[1].metadata.archiveOffset = 0

(***************************************************************************)
(* C18: for every entry, whatever its data source, saveToFile stores in    *)
(* the record of the entry the CRC-32 of the bytes it wrote for the entry  *)
(* and their number.                                                       *)
(***************************************************************************)
\* the bytes a data source stands for
SourceBytes(d, src) ==
    CASE src.kind = "string" -> d[src.path].bytes
      [] src.kind = "chunk"  -> ReadAt(d[src.path].bytes, src.offset, src.length)
      [] OTHER               -> src.bytes

C18_RecordHoldsCrcAndLength ==
    (/\ last.op = "saveToFile" /\ last.outcome = "ok"
     /\ vpk.version \in {Num(1), Num(2)} /\ getFiles(vpk) # <<>>) =>
        LET bytes == disk[last.path].bytes
            files == getFiles(vpk)
        IN  /\ Len(TreeOf(bytes).records) = Len(files)
            /\ \A i \in 1..Len(files) :
                    LET record == RecordAt(bytes, TreeOf(bytes).records[i])
                        data   == ReadAt(bytes, AbsoluteOffset(bytes, i),
                                         ReadU32LE(record, 12))
                    IN  /\ data = SourceBytes(disk, files[i].dataSource)
                        /\ ReadU32LE(record, 12)
                              = Len(SourceBytes(disk, files[i].dataSource))
                        /\ SubSeq(record, 1, 4) = crc32(CrcZero, data)

(***************************************************************************)
(* The tree length the format gives a tree: 1 for the final terminator,    *)
(* length + 2 for every extension and for every path of an extension,      *)
(* length + 1 + 18 for every name.                                         *)
(***************************************************************************)
RECURSIVE Sum(_)
Sum(ns) == IF ns = <<>> THEN 0 ELSE Head(ns) + Sum(Tail(ns))

LeavesLength(leafArr) ==
    Sum([i \in 1..Len(leafArr) |-> Len(leafArr[i].fileName) + 1 + 18])

PathsLength(bucket) ==
    Sum([p \in 1..Len(bucket) |-> Len(bucket[p].k) + 2 + LeavesLength(bucket[p].v)])

ExpectedTreeLength(tree) ==
    1 + Sum([e \in 1..Len(tree) |-> Len(tree[e].k) + 2 + PathsLength(tree[e].v)])

(***************************************************************************)
(* C19: after one or more addFile calls on a new archive, rejected ones    *)
(* included, the tracked tree length is 1 + the sum of (length + 2) over   *)
(* the extensions + the sum of (length + 2) over the paths of the          *)
(* extensions + the sum of (length + 1 + 18) over the names.               *)
(***************************************************************************)
C19_TreeLengthAfterAdds ==
    vpk.tree # <<>> => vpk.treeLength = ExpectedTreeLength(vpk.tree)

\* a rejected addFile of a file the archive already holds
C19_Witness ==
    /\ last.op = "addFile" /\ last.threw
    /\ vpk.fileCount >= 1 /\ vpk.treeLength = ExpectedTreeLength(vpk.tree)

(***************************************************************************)
(* C20: the tracked tree length is that sum after removeFile calls too,    *)
(* taken over what the archive holds after the call.                       *)
(***************************************************************************)
C20_TreeLengthAfterRemovals ==
    (last.op = "removeFile" /\ last.pre.tree # <<>>) =>
        vpk.treeLength = ExpectedTreeLength(vpk.tree)

(***************************************************************************)
(* C21: saveToFile lays the data of the entries end to end from the start  *)
(* of the data segment, in the order of the tree: the first record holds   *)
(* archive offset 0, every later record the offset of the record before it *)
(* plus that record's file length; every record holds preload length 0,    *)
(* archive index 0x7fff and suffix 0xffff; in version 2 the field at 12    *)
(* holds the sum of the file lengths and the 48 bytes of checksums start   *)
(* at header length + tree length + that sum and end the file.             *)
(***************************************************************************)
\* the file lengths of the records of a file, in file order
FileLengths(bytes) ==
    [i \in 1..Len(TreeOf(bytes).records) |->
        ReadU32LE(RecordAt(bytes, TreeOf(bytes).records[i]), 12)]

ArchiveOffsetAt(bytes, i) == ReadU32LE(RecordAt(bytes, TreeOf(bytes).records[i]), 8)

C21_DataBackToBack ==
    (last.op = "saveToFile" /\ last.outcome = "ok") =>
        LET bytes == disk[last.path].bytes
            count == Len(getFiles(vpk))
        IN  /\ count > 0 =>
                /\ Len(TreeOf(bytes).records) >= count
                /\ ArchiveOffsetAt(bytes, 1) = 0
                /\ \A i \in 2..count :
                        ArchiveOffsetAt(bytes, i)
                            = ArchiveOffsetAt(bytes, i - 1) + FileLengths(bytes)[i - 1]
                /\ \A i \in 1..count :
                        LET record == RecordAt(bytes, TreeOf(bytes).records[i])
                        IN  /\ ReadU16LE(record, 4) = 0
                            /\ ReadU16LE(record, 6) = 32767
                            /\ ReadU16LE(record, 16) = 65535
            /\ vpk.version = Num(2) =>
                LET embedChunkLength ==
                        IF count > 0 THEN Sum(SubSeq(FileLengths(bytes), 1, count)) ELSE 0
                    trailer == vpk.headerLength + vpk.treeLength + embedChunkLength
                IN  /\ ReadU32LE(bytes, 12) = embedChunkLength
                    /\ Len(bytes) = trailer + 48
                    /\ ReadAt(bytes, trailer, 16)
                          = Md5(ReadAt(bytes, vpk.headerLength, vpk.treeLength))
                    /\ ReadAt(bytes, trailer + 16, 16) = Md5(<<>>)

\* a version-2 file of two entries, the second stored after data of the first
C21_Witness ==
    /\ last.op = "saveToFile" /\ last.outcome = "ok" /\ vpk.version = Num(2)
    /\ Len(getFiles(vpk)) = 2
    /\ ArchiveOffsetAt(disk[last.path].bytes, 2) > 0

(***************************************************************************)
(* C22: for an archive built by addFile calls alone, whatever characters   *)
(* its extensions, paths and names are made of, saveToFile writes the tree *)
(* into the bytes from header length up to header length + tree length:    *)
(* the tree of the file ends, with its last terminator, exactly where the  *)
(* data of the first entry was written.                                    *)
(***************************************************************************)
C22_TreeFitsTrackedLength ==
    (/\ last.op = "saveToFile" /\ last.outcome = "ok"
     /\ ~history.loaded /\ vpk.tree # <<>>) =>
        /\ TreeOf(disk[last.path].bytes).whole
        /\ TreeOf(disk[last.path].bytes).end = vpk.headerLength + vpk.treeLength

(***************************************************************************)
(* C23: a new Vpk with no entry is saved with a tree of the one            *)
(* terminating NUL and tree length 1, as version 1 and as version 2; on    *)
(* the file written, indexFromFile returns an empty list, fromFile returns *)
(* an archive with no entry and verifyFile returns an empty list.          *)
(***************************************************************************)
\* /A was saved from an archive that no entry was added to
SavedEmpty == added = {} /\ disk["/A"].exists /\ "/A" \in history.written

C23_EmptyArchiveReopens ==
    /\ (last.op = "saveToFile" /\ last.outcome = "ok" /\ SavedEmpty) =>
            /\ TreeLengthOf(disk["/A"].bytes) = 1
            /\ ReadAt(disk["/A"].bytes, vpk.headerLength, 1) = <<0>>
    /\ (last.op \in ParseOps /\ last.path = "/A" /\ SavedEmpty) =>
            /\ ~last.threw /\ last.outcome = "ok"
            /\ last.index = <<>> /\ last.errors = <<>>
            /\ last.op = "fromFile" => getFiles(vpk) = <<>>

(***************************************************************************)
(* C24: getFiles returns every entry of the archive once, its relPath with *)
(* the sentinel stripped, extensions in the order of their first           *)
(* insertion, the paths of an extension in the order of their first        *)
(* insertion, the entries of a path in insertion order; and it leaves the  *)
(* archive as it was.                                                      *)
(***************************************************************************)
\* the keys of the entries in insertion order: a new extension, a new path and
\* a new entry are each stored after the ones already there
StoredKeys(tree) ==
    Flatten([e \in 1..Len(tree) |->
        Flatten([p \in 1..Len(tree[e].v) |->
            [i \in 1..Len(tree[e].v[p].v) |->
                <<tree[e].k,
                  IF tree[e].v[p].k = Sentinel THEN <<>> ELSE tree[e].v[p].k,
                  tree[e].v[p].v[i].fileName>>]])])

C24_GetFilesInInsertionOrder ==
    last.op = "getFiles" =>
        /\ [i \in 1..Len(last.list) |-> KeyOf(last.list[i])] = StoredKeys(vpk.tree)
        /\ vpk = last.pre
        /\ getFiles(vpk) = last.list

(***************************************************************************)
(* C25: when saveToFile, verifyFile, indexFromFile, fromFile or the helper *)
(* that extracts a region of a file returns or throws, whatever step of    *)
(* the call failed, no handle the call opened is still open.               *)
(***************************************************************************)
C25_NoHandleLeftOpen == last.io # <<>> => last.open = {}

(***************************************************************************)
(* C26: the archive fromFile(P) returns has the version stored in P, and   *)
(* the data source of every entry is a region of P: its path is P, its     *)
(* length is the file length of the entry's record, its offset (for a      *)
(* record with archive index 0x7fff) is the position of the entry's data   *)
(* in P; no entry holds bytes in memory.                                   *)
(***************************************************************************)
\* the leaves of a tree in the order getFiles gives the entries
LeavesOf(v) ==
    Flatten([e \in 1..Len(ForIn(v.tree)) |->
        Flatten([p \in 1..Len(ForIn(ObjGet(v.tree, ForIn(v.tree)[e]))) |->
            ObjGet(ObjGet(v.tree, ForIn(v.tree)[e]),
                   ForIn(ObjGet(v.tree, ForIn(v.tree)[e]))[p])])])

\* the version the header holds (a header cut short reads as zeros)
VersionOf(bytes) == ReadU32LE(ReadInto(Zeros(12), bytes, 0), 4)

C26_FromFileGivesRegions ==
    (last.op = "fromFile" /\ ~last.threw) =>
        LET bytes == disk[last.path].bytes
            files == getFiles(vpk)
        IN  /\ vpk.version = Num(VersionOf(bytes))
            /\ Len(files) = Len(TreeOf(bytes).records)
            /\ \A i \in 1..Len(files) :
                    /\ files[i].dataSource.kind = "chunk"
                    /\ files[i].dataSource.path = last.path
                    /\ files[i].dataSource.length = FileLengths(bytes)[i]
                    /\ files[i].dataSource.bytes = <<>>
                    /\ InThisFile(bytes, i) =>
                            files[i].dataSource.offset = AbsoluteOffset(bytes, i)
                    /\ ~Truthy(LeavesOf(vpk)[i].fileData)
                    /\ ~Truthy(LeavesOf(vpk)[i].absoluteFilePath)

\* a file of two entries, the second with data of its own after the first's
C26_Witness ==
    /\ last.op = "fromFile" /\ ~last.threw
    /\ Len(getFiles(vpk)) = 2
    /\ getFiles(vpk)[2].dataSource.length > 0
    /\ getFiles(vpk)[2].dataSource.offset > getFiles(vpk)[1].dataSource.offset

(***************************************************************************)
(* C27: for a file P on which verifyFile is empty, fromFile(P) followed by *)
(* saveToFile(P) succeeds and leaves at P an archive with the same         *)
(* entries, each with the file length and the CRC-32 it had before.        *)
(***************************************************************************)
\* the name, the file length and the CRC-32 of every entry of a file
Entries(d, absFilePath) ==
    [i \in 1..Len(indexFromFile(d, absFilePath).retArr) |->
        <<indexFromFile(d, absFilePath).retArr[i].relPath,
          indexFromFile(d, absFilePath).retArr[i].metadata.fileLength,
          indexFromFile(d, absFilePath).retArr[i].metadata.crc32>>]

SavedOverLoaded ==
    /\ last.op = "fromFile" /\ ~last.threw /\ last.path = "/A"
    /\ VerifiesEmpty(disk, "/A")
    /\ last'.op = "saveToFile" /\ last'.path = "/A"

C27_SaveOverSourceKeepsContent ==
    [][SavedOverLoaded =>
            /\ last'.outcome = "ok"
            /\ ~indexFromFile(disk', "/A").threw
            /\ Entries(disk', "/A") = Entries(disk, "/A")]_vars

(***************************************************************************)
(* C28: on every file, the walk of the tree ends after finitely many       *)
(* reads, by returning the tree or by throwing: also when the file is cut  *)
(* short, lacks the terminators of the tree, or declares a tree longer     *)
(* than the file.                                                          *)
(***************************************************************************)
C28_WalkTerminates ==
    (last.op = "getFileIndexTree") ~> (last.outcome \in {"ok", "threw"})

\* a walk returned at the end of a file that is shorter than the tree its
\* header declares, without having read the last terminator
C28_Witness ==
    /\ last.op = "getFileIndexTree" /\ last.outcome = "ok"
    /\ last.pos = Len(disk[last.path].bytes)
    /\ last.pos < WalkMax(disk[last.path].bytes)
    /\ disk[last.path].bytes[last.pos] # 0

(***************************************************************************)
(* C29: an addFile that is rejected as a duplicate leaves the archive as   *)
(* it was: the extensions, the paths, the entries and their order, the     *)
(* tracked tree length and the file count.                                 *)
(***************************************************************************)
C29_RejectedAddChangesNothing ==
    (last.op = "addFile" /\ last.threw) =>
        /\ vpk.tree = last.pre.tree
        /\ vpk.treeLength = last.pre.treeLength
        /\ vpk.fileCount = last.pre.fileCount
        /\ getFiles(vpk) = getFiles(last.pre)

\* a duplicate of an entry of the archive was rejected
C29_Witness ==
    /\ last.op = "addFile" /\ last.threw
    /\ Len(getFiles(last.pre)) >= 1
    /\ NormKey(KeyOf(last.file)) \in EntryKeys(vpk)

(***************************************************************************)
(* C30: indexFromFile reports the archiveIndex of every entry as the two   *)
(* bytes its metadata record holds on disk: 0x7fff for an entry whose data *)
(* is in the same file, and any other stored index as it is stored.        *)
(***************************************************************************)
\* the archive index the record of the i-th entry holds
StoredArchiveIndex(bytes, i) == ReadU16LE(RecordAt(bytes, TreeOf(bytes).records[i]), 6)

C30_ArchiveIndexAsStored ==
    (last.op = "indexFromFile" /\ ~last.threw) =>
        LET bytes == disk[last.path].bytes
        IN  /\ Len(last.index) = Len(TreeOf(bytes).records)
            /\ \A i \in 1..Len(last.index) :
                    last.index[i].metadata.archiveIndex = StoredArchiveIndex(bytes, i)

====
